---- MODULE Spec2Model ----
(***************************************************************************)
(* Model of the Spanner driver of the ORM (SpannerDriver): the connection  *)
(* life cycle with its schema cache, the named-parameter translator        *)
(* (escapeQueryWithParameters), the schema differ (findChangedColumns),    *)
(* the DDL parser (parseSchema, parseTypeName), the comparison of default  *)
(* values (compareDefaultValues) and the preparation of values             *)
(* (preparePersistentValue, prepareHydratedValue).                         *)
(*                                                                         *)
(* Text is modelled as a sequence of one-character strings, so that the    *)
(* regular expressions of the source are computed character by character.  *)
(***************************************************************************)
EXTENDS Integers, Sequences, FiniteSets, TLC

VARIABLES
    \* ---- escapeQueryWithParameters: its three arguments and its result
    sql,               \* the SQL text handed in
    parameters,        \* the named parameters, in declaration (Object.keys) order
    nativeParameters,  \* the passthrough mapping
    escaped,           \* [done, sql, params]: the returned pair once the call ran
    \* ---- findChangedColumns: its two arguments and its result
    tableColumns,      \* the live columns (TableColumn[])
    columnMetadatas,   \* the desired columns (ColumnMetadata[])
    changed,           \* [done, cols]: the returned array once the call ran
    \* ---- the driver and the database it talks to
    ddl,               \* the schema of the database: which of DdlCatalogue getSchema returns
    extendStore,       \* the metadata table: which of ExtendCatalogue it holds
    spanner,           \* this.spanner: 0 for null, else the SpannerDatabase object it holds
    databases,         \* the SpannerDatabase objects created so far, by identity
    connecting,        \* connect() calls awaiting database.get
    loading,           \* loadTables() calls whose promises are pending
    afterConnecting,   \* afterConnect() calls awaiting the query runner
    loaded,            \* the databases on which a loadTables call has resolved
    lastStep,          \* the last step taken, with what it returned or threw
    \* ---- single calls of the other methods: arguments, position, result
    comparison,        \* a call of compareDefaultValues
    preparation,       \* a call of preparePersistentValue or prepareHydratedValue
    parsing            \* a call of parseSchema

escapeVars == <<sql, parameters, nativeParameters, escaped>>
diffVars == <<tableColumns, columnMetadatas, changed>>
driverVars == <<ddl, extendStore, spanner, databases, connecting, loading,
                afterConnecting, loaded, lastStep>>
callVars == <<comparison, preparation, parsing>>
vars == <<escapeVars, diffVars, driverVars, callVars>>

-----------------------------------------------------------------------------
(* Characters and text *)

Digits == {"0", "1", "2", "3", "4", "5", "6", "7", "8", "9"}
Letters ==
    {"a", "b", "c", "d", "e", "f", "g", "h", "i", "j", "k", "l", "m",
     "n", "o", "p", "q", "r", "s", "t", "u", "v", "w", "x", "y", "z",
     "A", "B", "C", "D", "E", "F", "G", "H", "I", "J", "K", "L", "M",
     "N", "O", "P", "Q", "R", "S", "T", "U", "V", "W", "X", "Y", "Z"}
\* the regular expression class \w
WordChars == Letters \cup Digits \cup {"_"}
\* the regular expression class \s (of the characters the model writes)
SpaceChars == {" ", "\n", "\t"}

\* the text s from position i (1-based) to its end
Drop(s, i) == SubSeq(s, i, Len(s))
\* whether text t stands in s at position i
StartsAt(s, i, t) ==
    /\ i >= 1
    /\ i + Len(t) - 1 <= Len(s)
    /\ SubSeq(s, i, i + Len(t) - 1) = t

RECURSIVE Concat(_)
\* the texts of a sequence, joined
Concat(ss) == IF ss = <<>> THEN <<>> ELSE Head(ss) \o Concat(Tail(ss))

RECURSIVE Join(_, _)
\* Array.prototype.join
Join(ss, sep) ==
    IF ss = <<>> THEN <<>>
    ELSE IF Len(ss) = 1 THEN Head(ss)
    ELSE Head(ss) \o sep \o Join(Tail(ss), sep)

DigitOf(d) ==
    CASE d = 0 -> "0" [] d = 1 -> "1" [] d = 2 -> "2" [] d = 3 -> "3"
      [] d = 4 -> "4" [] d = 5 -> "5" [] d = 6 -> "6" [] d = 7 -> "7"
      [] d = 8 -> "8" [] d = 9 -> "9"

RECURSIVE NumberToText(_)
\* the decimal text of a natural number, as a template literal writes it
NumberToText(n) ==
    IF n < 10 THEN <<DigitOf(n)>>
    ELSE NumberToText(n \div 10) \o <<DigitOf(n % 10)>>

\* all sequences over S of length at most n
SeqsUpTo(S, n) == UNION {[1..k -> S] : k \in 0..n}

-----------------------------------------------------------------------------
(* Regular expressions *)
(* A pattern is a sequence of atoms, matched the way the backtracking       *)
(* matcher of the language matches it: atoms left to right, a greedy        *)
(* quantifier trying the longest run first and a lazy one the shortest, the *)
(* first way that lets the rest of the pattern match being the match. The   *)
(* matches of the atoms from the k-th on are tabulated for every position   *)
(* of the text, from the last atom back to the first.                       *)

Atom(kind, text, set, neg, min, many, greedy, sub, g) ==
    [kind |-> kind, text |-> text, set |-> set, neg |-> neg, min |-> min,
     many |-> many, greedy |-> greedy, sub |-> sub, g |-> g]
\* a literal text
Lit(t) == Atom("lit", t, {}, FALSE, 0, FALSE, TRUE, <<>>, 0)
\* a character class [set] or [^set] with its quantifier
One(set) == Atom("cls", <<>>, set, FALSE, 1, FALSE, TRUE, <<>>, 0)
Opt(set) == Atom("cls", <<>>, set, FALSE, 0, FALSE, TRUE, <<>>, 0)
Star(set) == Atom("cls", <<>>, set, FALSE, 0, TRUE, TRUE, <<>>, 0)
Plus(set) == Atom("cls", <<>>, set, FALSE, 1, TRUE, TRUE, <<>>, 0)
LazyPlus(set) == Atom("cls", <<>>, set, FALSE, 1, TRUE, FALSE, <<>>, 0)
NotStar(set) == Atom("cls", <<>>, set, TRUE, 0, TRUE, TRUE, <<>>, 0)
NotPlus(set) == Atom("cls", <<>>, set, TRUE, 1, TRUE, TRUE, <<>>, 0)
\* [\s\S]*?; [\s\S]* is NotStar({})
LazyAnyStar == Atom("cls", <<>>, {}, TRUE, 0, TRUE, FALSE, <<>>, 0)
\* (?=sub)
Ahead(sub) == Atom("look", <<>>, {}, FALSE, 0, FALSE, TRUE, sub, 0)
\* the parentheses of capture group g
Open(g) == Atom("open", <<>>, {}, FALSE, 0, FALSE, TRUE, <<>>, g)
Close(g) == Atom("close", <<>>, {}, FALSE, 0, FALSE, TRUE, <<>>, g)

\* the one element of a set of one: The({e : x \in {d}}) is e with x
\* standing for the value of d, computed once
The(S) == CHOOSE x \in S : TRUE

InClass(a, c) == IF a.neg THEN c \notin a.set ELSE c \in a.set

\* how many characters from position i on are of a class, stops being the
\* positions whose character is not of the class, and the end
RunLength(stops, i) ==
    The({ (CHOOSE j \in from : \A k \in from : j <= k) - i
          : from \in { {j \in stops : j >= i} } })

\* a match is the sequence of the positions before each atom and after the
\* last; the empty sequence says there is none
Before(i, rest) == IF rest = <<>> THEN <<>> ELSE <<i>> \o rest

RECURSIVE MatchAtoms(_, _, _, _)
\* atom a matched at position i of s, rest[j] being the match of the atoms
\* after it at position j; at is, for a lookahead, the matches at every
\* position of what it looks for and, for a repeated class, the positions
\* where a run of the class stops. A
\* quantified class takes the first number of characters that lets the rest
\* match, the numbers being tried from the longest run down when greedy and
\* from the shortest up when lazy
MatchAtom(a, s, i, rest, at) ==
    CASE a.kind = "lit" ->
            IF StartsAt(s, i, a.text) THEN Before(i, rest[i + Len(a.text)]) ELSE <<>>
      [] a.kind \in {"open", "close"} -> Before(i, rest[i])
      [] a.kind = "look" ->
            IF at[i] # <<>> THEN Before(i, rest[i]) ELSE <<>>
      [] a.kind = "cls" ->
            The({ IF found = {} THEN <<>>
                  ELSE Before(i, rest[i + (CHOOSE n \in found :
                                              \A o \in found : IF a.greedy THEN o <= n
                                                               ELSE o >= n)])
                  : found \in { {n \in a.min..(IF a.many THEN RunLength(at, i)
                                               ELSE IF i <= Len(s) /\ InClass(a, s[i])
                                               THEN 1 ELSE 0)
                                 : rest[i + n] # <<>>} } })

\* the matches of the atoms 1.. of the pattern at every position of s, given
\* in rest the matches of the atoms after the k-th
MatchAtoms(pat, s, k, rest) ==
    IF k = 0 THEN rest
    ELSE The({ MatchAtoms(pat, s, k - 1, matches)
               : matches \in { The({ [i \in 1..(Len(s) + 1) |->
                                        MatchAtom(pat[k], s, i, rest, at)]
                                     : at \in { IF pat[k].kind = "look"
                                                THEN MatchAtoms(pat[k].sub, s, Len(pat[k].sub),
                                                                [j \in 1..(Len(s) + 1) |-> <<j>>])
                                                ELSE IF pat[k].kind = "cls" /\ pat[k].many
                                                THEN {j \in 1..(Len(s) + 1) :
                                                        j > Len(s) \/ ~InClass(pat[k], s[j])}
                                                ELSE <<>> } }) } })

\* String.prototype.match without the g flag, from position p on: the
\* leftmost match, <<>> for null
SearchFrom(pat, s, p) ==
    The({ The({ IF found = {} THEN <<>>
                ELSE matches[CHOOSE q \in found : \A o \in found : q <= o]
                : found \in { {q \in p..Len(matches) : matches[q] # <<>>} } })
          : matches \in UNION { {MatchAtoms(atoms, text, Len(atoms),
                                             [j \in 1..(Len(text) + 1) |-> <<j>>])}
                                : atoms \in {pat}, text \in {s} } })

\* the text of capture group g of a match m of pat in s
Group(pat, m, s, g) ==
    LET o == CHOOSE k \in 1..Len(pat) : pat[k].kind = "open" /\ pat[k].g = g
        c == CHOOSE k \in 1..Len(pat) : pat[k].kind = "close" /\ pat[k].g = g
    IN  SubSeq(s, m[o], m[c] - 1)

RECURSIVE MatchAllFrom(_, _, _)
\* the matched texts from position p on, matches[q] being the match at q
MatchAllFrom(matches, s, p) ==
    The({ IF found = {} THEN <<>>
          ELSE The({ <<SubSeq(s, m[1], m[Len(m)] - 1)>>
                     \o MatchAllFrom(matches, s, IF m[Len(m)] > m[1]
                                                 THEN m[Len(m)] ELSE m[Len(m)] + 1)
                     : m \in { matches[CHOOSE q \in found : \A o \in found : q <= o] } })
          : found \in { {q \in p..Len(matches) : matches[q] # <<>>} } })
\* String.prototype.match with the g flag: the matched texts, left to right
MatchAll(pat, s) ==
    The({ MatchAllFrom(matches, s, 1)
          : matches \in UNION { {MatchAtoms(atoms, text, Len(atoms),
                                             [j \in 1..(Len(text) + 1) |-> <<j>>])}
                                : atoms \in {pat}, text \in {s} } })

\* String.prototype.indexOf: counted from 0, -1 when t is not in s
IndexOf(s, t) ==
    The({ IF found = {} THEN -1
          ELSE (CHOOSE j \in found : \A l \in found : j <= l) - 1
          : found \in { UNION { {j \in 1..(Len(text) + 1 - Len(t)) : StartsAt(text, j, t)}
                                : text \in {s} } } })

RECURSIVE SplitFrom(_, _, _)
SplitFrom(s, c, i) ==
    IF \E j \in i..Len(s) : s[j] = c
    THEN LET j == CHOOSE j \in i..Len(s) : s[j] = c /\ \A l \in i..(j - 1) : s[l] # c
         IN  <<SubSeq(s, i, j - 1)>> \o SplitFrom(s, c, j + 1)
    ELSE <<SubSeq(s, i, Len(s))>>
\* String.prototype.split on a one-character separator
Split(s, c) == The({ SplitFrom(text, c, 1) : text \in {s} })

\* String.prototype.trim
Trim(s) ==
    The({ IF inked = {} THEN <<>>
          ELSE SubSeq(text, CHOOSE i \in inked : \A j \in inked : i <= j,
                            CHOOSE i \in inked : \A j \in inked : i >= j)
          : text \in {s},
            inked \in { UNION { {i \in 1..Len(text) : text[i] \notin SpaceChars}
                                : text \in {s} } } })

\* String.prototype.toLowerCase
ToLowerCase(s) ==
    LET upper == <<"A", "B", "C", "D", "E", "F", "G", "H", "I", "J", "K", "L", "M",
                   "N", "O", "P", "Q", "R", "S", "T", "U", "V", "W", "X", "Y", "Z">>
        lower == <<"a", "b", "c", "d", "e", "f", "g", "h", "i", "j", "k", "l", "m",
                   "n", "o", "p", "q", "r", "s", "t", "u", "v", "w", "x", "y", "z">>
    IN  The({ [i \in 1..Len(text) |->
                 IF \E k \in 1..Len(upper) : upper[k] = text[i]
                 THEN lower[CHOOSE k \in 1..Len(upper) : upper[k] = text[i]]
                 ELSE text[i]]
              : text \in {s} })

DigitValue(c) ==
    CASE c = "0" -> 0 [] c = "1" -> 1 [] c = "2" -> 2 [] c = "3" -> 3
      [] c = "4" -> 4 [] c = "5" -> 5 [] c = "6" -> 6 [] c = "7" -> 7
      [] c = "8" -> 8 [] c = "9" -> 9
RECURSIVE TextToNumber(_)
\* Number(text) for a text of digits
TextToNumber(s) ==
    IF s = <<>> THEN 0
    ELSE 10 * TextToNumber(SubSeq(s, 1, Len(s) - 1)) + DigitValue(s[Len(s)])

-----------------------------------------------------------------------------
(* escapeQueryWithParameters *)

\* A parameter value. isFunction and isArray are the outcomes of the two
\* instanceof tests of the source; v is the payload of a plain value, elems
\* the elements of an array, ret the text a function returns when called
\* with no arguments.
Scalar(n) ==
    [isFunction |-> FALSE, isArray |-> FALSE, v |-> n, elems |-> <<>>, ret |-> <<>>]
ArrayOf(es) ==
    [isFunction |-> FALSE, isArray |-> TRUE, v |-> 0, elems |-> es, ret |-> <<>>]
FunctionReturning(t) ==
    [isFunction |-> TRUE, isArray |-> FALSE, v |-> 0, elems |-> <<>>, ret |-> t]
\* a function object that also passes the instanceof Array test
FunctionArray(t, es) ==
    [isFunction |-> TRUE, isArray |-> TRUE, v |-> 0, elems |-> es, ret |-> t]

\* An object literal is the sequence of its bindings, in key order.
Binding(k, x) == [name |-> k, value |-> x]
\* Object.keys(parameters)
Keys(obj) == [i \in 1..Len(obj) |-> obj[i].name]
HasKey(obj, k) == \E i \in 1..Len(obj) : obj[i].name = k
\* parameters[keyName], for a key the object holds
Lookup(obj, k) == obj[CHOOSE i \in 1..Len(obj) : obj[i].name = k].value

IsWordAt(s, j) == j >= 1 /\ j <= Len(s) /\ s[j] \in WordChars
\* the assertion \b between s[j-1] and s[j]
WordBoundary(s, j) == IsWordAt(s, j - 1) # IsWordAt(s, j)

\* MatchKey without the optional spread group: only ":name" is matched
MatchKeyPlainOnly(s, i, name) ==
    LET plain == <<":">> \o name
    IN  IF StartsAt(s, i, plain) /\ WordBoundary(s, i + Len(plain))
        THEN Len(plain)
        ELSE 0

\* The alternative "(:(\.\.\.)?" + parameter + "\b)" tried at position i of s:
\* the length of its match, 0 when it does not match. The optional group is
\* greedy: the spread form is tried first.
MatchKey(s, i, name) ==
    LET spread == <<":", ".", ".", ".">> \o name
        plain == <<":">> \o name
    IN  IF StartsAt(s, i, spread) /\ WordBoundary(s, i + Len(spread))
        THEN Len(spread)
        ELSE IF StartsAt(s, i, plain) /\ WordBoundary(s, i + Len(plain))
        THEN Len(plain)
        ELSE 0

\* The alternation of all keys at position i: the first alternative, in
\* declaration order, that matches decides.
MatchKeys(s, i, keys) ==
    IF \E k \in 1..Len(keys) : MatchKey(s, i, keys[k]) > 0
    THEN MatchKey(s, i, keys[CHOOSE k \in 1..Len(keys) :
            /\ MatchKey(s, i, keys[k]) > 0
            /\ \A j \in 1..(k - 1) : MatchKey(s, i, keys[j]) = 0])
    ELSE 0

\* key.substr(0, 4) === ":..." ? key.substr(4) : key.substr(1)
KeyName(key) ==
    IF StartsAt(key, 1, <<":", ".", ".", ".">>) THEN Drop(key, 5) ELSE Drop(key, 2)

\* `${keyName}${i}`, i counting from 0
ElementKeyName(keyName, i) == keyName \o NumberToText(i)

\* ReplaceKey with the elements of an array counted from 1 instead of 0
ReplaceKeyFromOne(key, params) ==
    LET keyName == KeyName(key)
        value == Lookup(params, keyName)
    IN  IF value.isFunction
        THEN [text |-> value.ret, pushed |-> <<>>]
        ELSE IF value.isArray
        THEN [text |-> Join([i \in 1..Len(value.elems) |->
                                <<"@">> \o ElementKeyName(keyName, i)],
                            <<",", " ">>),
              pushed |-> [i \in 1..Len(value.elems) |->
                            <<Binding(ElementKeyName(keyName, i), value.elems[i])>>]]
        ELSE [text |-> <<"@">> \o keyName,
              pushed |-> << <<Binding(keyName, value)>> >>]

\* ReplaceKey with the array test made before the function test
ReplaceKeyArrayFirst(key, params) ==
    LET keyName == KeyName(key)
        value == Lookup(params, keyName)
    IN  IF value.isArray
        THEN [text |-> Join([i \in 1..Len(value.elems) |->
                                <<"@">> \o ElementKeyName(keyName, i - 1)],
                            <<",", " ">>),
              pushed |-> [i \in 1..Len(value.elems) |->
                            <<Binding(ElementKeyName(keyName, i - 1), value.elems[i])>>]]
        ELSE IF value.isFunction
        THEN [text |-> value.ret, pushed |-> <<>>]
        ELSE [text |-> <<"@">> \o keyName,
              pushed |-> << <<Binding(keyName, value)>> >>]

\* The replace callback: the text spliced in for one match and the parameters
\* it pushes.
ReplaceKey(key, params) ==
    LET keyName == KeyName(key)
        value == Lookup(params, keyName)
    IN  IF value.isFunction
        THEN [text |-> value.ret, pushed |-> <<>>]
        ELSE IF value.isArray
        THEN [text |-> Join([i \in 1..Len(value.elems) |->
                                <<"@">> \o ElementKeyName(keyName, i - 1)],
                            <<",", " ">>),
              pushed |-> [i \in 1..Len(value.elems) |->
                            <<Binding(ElementKeyName(keyName, i - 1), value.elems[i])>>]]
        ELSE [text |-> <<"@">> \o keyName,
              pushed |-> << <<Binding(keyName, value)>> >>]

RECURSIVE ReplaceAll(_, _, _, _)
\* sql.replace(new RegExp(keys, "g"), callback) from position i on; acc holds
\* the text written and the parameters pushed so far.
ReplaceAll(s, i, params, acc) ==
    IF i > Len(s) THEN acc
    ELSE LET n == MatchKeys(s, i, Keys(params))
         IN  IF n = 0
             THEN ReplaceAll(s, i + 1, params,
                             [text |-> acc.text \o <<s[i]>>, pushed |-> acc.pushed])
             ELSE LET r == ReplaceKey(SubSeq(s, i, i + n - 1), params)
                  IN  ReplaceAll(s, i + n, params,
                                 [text |-> acc.text \o r.text,
                                  pushed |-> acc.pushed \o r.pushed])

\* InitialEscapedParameters without the test for an empty object
InitialEscapedParametersAlways(native) == <<native>>

\* Object.keys(nativeParameters).length > 0 ? [nativeParameters] : []
InitialEscapedParameters(native) == IF Len(native) > 0 THEN <<native>> ELSE <<>>

\* escapeQueryWithParameters(sql, parameters, nativeParameters): the pair
\* [sql, escapedParameters] it returns.
escapeQueryWithParameters(s, params, native) ==
    IF Len(params) = 0
    THEN [sql |-> s, params |-> InitialEscapedParameters(native)]
    ELSE LET r == ReplaceAll(s, 1, params,
                             [text |-> <<>>, pushed |-> InitialEscapedParameters(native)])
         IN  [sql |-> r.text, params |-> r.pushed]


-----------------------------------------------------------------------------
(* The calls of escapeQueryWithParameters that are explored *)

\* the longest SQL text, in lexemes
MaxTok == 3
\* the longest array value
MaxLen == 2

\* the pieces SQL texts are written from: the placeholders of the names a and
\* a0 in both forms, and text around them
SqlLexemes ==
    { <<":", "a">>, <<":", ".", ".", ".", "a">>, <<":", "a", "0">>,
      <<" ">>, <<"x">>, <<",">> }
SqlTexts == {Concat(ls) : ls \in SeqsUpTo(SqlLexemes, MaxTok)}

ParamNames == { <<"a">>, <<"a", "0">> }
\* the text the function values return
FragmentText == <<"n", "(", ")">>
ElementsOf(n) == [i \in 1..n |-> Scalar(10 + i)]
ParamValues ==
    {Scalar(1), FunctionReturning(FragmentText),
     FunctionArray(FragmentText, ElementsOf(1))}
    \cup {ArrayOf(ElementsOf(n)) : n \in 0..MaxLen}
\* the objects over ParamNames: every order of every subset of the names
ParameterObjects ==
    {ps \in SeqsUpTo({Binding(k, x) : k \in ParamNames, x \in ParamValues},
                     Cardinality(ParamNames)) :
        \A i, j \in 1..Len(ps) : i # j => ps[i].name # ps[j].name}
NativeObjects == { <<>>, <<Binding(<<"n">>, Scalar(5))>> }

NotEscaped == [done |-> FALSE, sql |-> <<>>, params |-> <<>>]

InitEscape ==
    /\ sql \in SqlTexts
    /\ parameters \in ParameterObjects
    /\ nativeParameters \in NativeObjects
    /\ escaped = NotEscaped

IdleEscape ==
    /\ sql = <<>>
    /\ parameters = <<>>
    /\ nativeParameters = <<>>
    /\ escaped = NotEscaped

\* one call of escapeQueryWithParameters
EscapeQuery ==
    /\ ~escaped.done
    /\ LET r == escapeQueryWithParameters(sql, parameters, nativeParameters)
       IN  escaped' = [done |-> TRUE, sql |-> r.sql, params |-> r.params]
    /\ UNCHANGED <<sql, parameters, nativeParameters>>

-----------------------------------------------------------------------------
(* findChangedColumns *)

\* A JavaScript value, as far as the fields that are compared hold one: its
\* type tag with a number, a text or (for a function) the text it returns.
\* Two values are strictly equal (===) when they are the same record.
Undefined == [t |-> "undefined", n |-> 0, s |-> <<>>]
Null == [t |-> "null", n |-> 0, s |-> <<>>]
Num(k) == [t |-> "number", n |-> k, s |-> <<>>]
Str(x) == [t |-> "string", n |-> 0, s |-> x]
Bool(b) == [t |-> "boolean", n |-> IF b THEN 1 ELSE 0, s |-> <<>>]
\* a function, named by the text it returns when called
Fn(x) == [t |-> "function", n |-> 0, s |-> x]
\* one of the constructors Number, String, Date, Buffer, Boolean used as a
\* column type
Ctor(x) == [t |-> "constructor", n |-> 0, s |-> x]

TextInt64 == <<"i", "n", "t", "6", "4">>
TextString == <<"s", "t", "r", "i", "n", "g">>
TextTimestamp == <<"t", "i", "m", "e", "s", "t", "a", "m", "p">>
TextBytes == <<"b", "y", "t", "e", "s">>
TextBool == <<"b", "o", "o", "l">>
TextUuid == <<"u", "u", "i", "d">>
TextIncrement == <<"i", "n", "c", "r", "e", "m", "e", "n", "t">>
\* SpannerColumnUpdateWithCommitTimestamp
TextCommitTimestamp == <<"c", "o", "m", "m", "i", "t", "_", "t", "i", "m", "e", "s", "t", "a", "m", "p">>

\* normalizeType(column)
normalizeType(column) ==
    IF column.type = Ctor(<<"N", "u", "m", "b", "e", "r">>) \/ column.type = Str(<<"i", "n", "t", "e", "g", "e", "r">>)
    THEN TextInt64
    ELSE IF column.type = Ctor(<<"S", "t", "r", "i", "n", "g">>) \/ column.type = Str(<<"n", "v", "a", "r", "c", "h", "a", "r">>)
    THEN TextString
    ELSE IF column.type = Ctor(<<"D", "a", "t", "e">>)
    THEN TextTimestamp
    ELSE IF column.type = Ctor(<<"B", "u", "f", "f", "e", "r">>)
    THEN TextBytes
    ELSE IF column.type = Ctor(<<"B", "o", "o", "l", "e", "a", "n">>)
    THEN TextBool
    ELSE IF column.type = Str(<<"s", "i", "m", "p", "l", "e", "-", "a", "r", "r", "a", "y">>) \/ column.type = Str(<<"s", "i", "m", "p", "l", "e", "-", "j", "s", "o", "n">>)
    THEN TextString
    ELSE IF column.type.t = "string" THEN column.type.s   \* column.type as string
    ELSE <<>>                                             \* || ""

\* normalizeDefault(columnMetadata)
normalizeDefault(columnMetadata) ==
    LET defaultValue == columnMetadata.default
    IN  IF columnMetadata.isUpdateDate
        THEN Str(TextCommitTimestamp)
        ELSE IF defaultValue.t = "number"
        THEN Str(NumberToText(defaultValue.n))
        ELSE IF defaultValue.t = "boolean"
        THEN (IF defaultValue.n = 1 THEN Str(<<"t", "r", "u", "e">>) ELSE Str(<<"f", "a", "l", "s", "e">>))
        ELSE IF defaultValue.t = "function"
        THEN Str(defaultValue.s)
        ELSE IF defaultValue.t = "string"
        THEN Str(<<"'">> \o defaultValue.s \o <<"'">>)
        ELSE defaultValue

\* normalizeIsUnique(column): some unique index of the entity is over this
\* one column. A column object is identified by its propertyName.
normalizeIsUnique(column) ==
    \E k \in 1..Len(column.entityMetadata.indices) :
        LET idx == column.entityMetadata.indices[k]
        IN  /\ idx.isUnique
            /\ Len(idx.columns) = 1
            /\ idx.columns[1] = column.propertyName

RECURSIVE StripLeadingQuotes(_)
\* replace(/^'+/, "")
StripLeadingQuotes(x) ==
    IF x # <<>> /\ Head(x) = "'" THEN StripLeadingQuotes(Tail(x)) ELSE x
RECURSIVE StripTrailingQuotes(_)
\* replace(/'+$/, "")
StripTrailingQuotes(x) ==
    IF x # <<>> /\ x[Len(x)] = "'"
    THEN StripTrailingQuotes(SubSeq(x, 1, Len(x) - 1))
    ELSE x
\* replace(/^'+|'+$/g, "")
StripQuotes(x) == StripTrailingQuotes(StripLeadingQuotes(x))

\* compareDefaultValues without the quotes cut off
compareDefaultValuesUnstripped(columnMetadataValue, databaseValue) ==
    columnMetadataValue = databaseValue

\* replace(/^'|'$/g, ""): one quote cut off at each end
StripOneLayer(x) ==
    IF x = <<>> THEN x
    ELSE IF Head(x) = "'"
    THEN (IF Len(x) > 1 /\ x[Len(x)] = "'" THEN SubSeq(x, 2, Len(x) - 1) ELSE Tail(x))
    ELSE IF x[Len(x)] = "'" THEN SubSeq(x, 1, Len(x) - 1)
    ELSE x

\* compareDefaultValues cutting off one quote at each end only
compareDefaultValuesOneLayer(columnMetadataValue, databaseValue) ==
    IF columnMetadataValue.t = "string" /\ databaseValue.t = "string"
    THEN StripOneLayer(columnMetadataValue.s) = StripOneLayer(databaseValue.s)
    ELSE columnMetadataValue = databaseValue

\* compareDefaultValues(columnMetadataValue, databaseValue)
compareDefaultValues(columnMetadataValue, databaseValue) ==
    IF columnMetadataValue.t = "string" /\ databaseValue.t = "string"
    THEN StripQuotes(columnMetadataValue.s) = StripQuotes(databaseValue.s)
    ELSE columnMetadataValue = databaseValue

\* tableColumns.find(c => c.name === columnMetadata.databaseName): the index
\* of the first such column, 0 when there is none
FindTableColumn(cols, columnMetadata) ==
    IF \E i \in 1..Len(cols) : cols[i].name = columnMetadata.databaseName
    THEN CHOOSE i \in 1..Len(cols) :
            /\ cols[i].name = columnMetadata.databaseName
            /\ \A j \in 1..(i - 1) : cols[j].name # columnMetadata.databaseName
    ELSE 0

\* the comparison of one desired column with its live column
ColumnDiffers(tableColumn, columnMetadata) ==
    \/ tableColumn.name # columnMetadata.databaseName
    \/ tableColumn.type # normalizeType(columnMetadata)
    \/ tableColumn.length # columnMetadata.length
    \/ tableColumn.width # columnMetadata.width
    \/ tableColumn.precision # columnMetadata.precision
    \/ tableColumn.scale # columnMetadata.scale
    \/ tableColumn.zerofill # columnMetadata.zerofill
    \/ tableColumn.unsigned # columnMetadata.unsigned
    \/ tableColumn.asExpression # columnMetadata.asExpression
    \/ tableColumn.generatedType # columnMetadata.generatedType
    \/ ~compareDefaultValues(normalizeDefault(columnMetadata), tableColumn.default)
    \/ tableColumn.onUpdate # columnMetadata.onUpdate
    \/ tableColumn.isPrimary # columnMetadata.isPrimary
    \/ tableColumn.isNullable # columnMetadata.isNullable
    \/ tableColumn.isUnique # normalizeIsUnique(columnMetadata)
    \/ (/\ columnMetadata.generationStrategy # Str(TextUuid)
        /\ tableColumn.isGenerated # columnMetadata.isGenerated)

\* IsChangedColumn that reports a desired column without a live column
IsChangedColumnOrNew(cols, columnMetadata) ==
    LET i == FindTableColumn(cols, columnMetadata)
    IN  IF i = 0 THEN TRUE
        ELSE ColumnDiffers(cols[i], columnMetadata)

\* IsChangedColumn that does not look at isNullable
IsChangedColumnButNullable(cols, columnMetadata) ==
    LET i == FindTableColumn(cols, columnMetadata)
    IN  IF i = 0 THEN FALSE
        ELSE ColumnDiffers([cols[i] EXCEPT !.isNullable = columnMetadata.isNullable],
                           columnMetadata)

\* the filter of findChangedColumns for one desired column
IsChangedColumn(cols, columnMetadata) ==
    LET i == FindTableColumn(cols, columnMetadata)
    IN  IF i = 0 THEN FALSE   \* new columns are not reported
        ELSE ColumnDiffers(cols[i], columnMetadata)

\* findChangedColumns(tableColumns, columnMetadatas)
findChangedColumns(cols, metadatas) ==
    LET Test(columnMetadata) == IsChangedColumn(cols, columnMetadata)
    IN  SelectSeq(metadatas, Test)

-----------------------------------------------------------------------------
(* parseTypeName and parseSchema *)

\* /([^\(]+)\((\d+)\)/
TypeLengthPattern ==
    <<Open(1), NotPlus({"("}), Close(1), Lit(<<"(">>),
      Open(2), Plus(Digits), Close(2), Lit(<<")">>)>>
\* /([^<]+)<(\w+)>/
TypeArrayPattern ==
    <<Open(1), NotPlus({"<"}), Close(1), Lit(<<"<">>),
      Open(2), Plus(WordChars), Close(2), Lit(<<">">>)>>

\* parseTypeName(typeName)
parseTypeName(typeName) ==
    The({ IF tm # <<>>
          THEN [typeName |-> ToLowerCase(Group(TypeLengthPattern, tm, typeName, 1)),
                isArray |-> FALSE,
                length |-> TextToNumber(Group(TypeLengthPattern, tm, typeName, 2))]
          ELSE IF SearchFrom(TypeArrayPattern, typeName, 1) # <<>>
          THEN [typeName |-> ToLowerCase(typeName), isArray |-> TRUE, length |-> 1]
          ELSE [typeName |-> ToLowerCase(typeName), isArray |-> FALSE, length |-> 1]
          : tm \in {SearchFrom(TypeLengthPattern, typeName, 1)} })

\* /\s*CREATE\s+TABLE\s+(\w+)\s?[^\(]*\(([\s\S]*?),(?=\s*\))\s*\)([\s\S]*)/
CreateTablePattern ==
    <<Star(SpaceChars), Lit(<<"C", "R", "E", "A", "T", "E">>), Plus(SpaceChars), Lit(<<"T", "A", "B", "L", "E">>),
      Plus(SpaceChars), Open(1), Plus(WordChars), Close(1), Opt(SpaceChars),
      NotStar({"("}), Lit(<<"(">>), Open(2), LazyAnyStar, Close(2), Lit(<<",">>),
      Ahead(<<Star(SpaceChars), Lit(<<")">>)>>), Star(SpaceChars), Lit(<<")">>),
      Open(3), NotStar({}), Close(3)>>
\* /(\w+)\s+([\w\(\)]+)\s*([^\n]*)/
ColumnPattern ==
    <<Open(1), Plus(WordChars), Close(1), Plus(SpaceChars),
      Open(2), Plus(WordChars \cup {"(", ")"}), Close(2), Star(SpaceChars),
      Open(3), NotStar({"\n"}), Close(3)>>
\* /(\w+[\w\s]+\([^)]+\)[^,]*)/g
IndexStmtPattern ==
    <<Open(1), Plus(WordChars), Plus(WordChars \cup SpaceChars), Lit(<<"(">>),
      NotPlus({")"}), Lit(<<")">>), NotStar({","}), Close(1)>>
\* /INTERLEAVE\s+IN\s+PARENT\s+(\w+)\s*\((\w+)\)/
InterleavePattern ==
    <<Lit(<<"I", "N", "T", "E", "R", "L", "E", "A", "V", "E">>), Plus(SpaceChars), Lit(<<"I", "N">>), Plus(SpaceChars),
      Lit(<<"P", "A", "R", "E", "N", "T">>), Plus(SpaceChars), Open(1), Plus(WordChars), Close(1),
      Star(SpaceChars), Lit(<<"(">>), Open(2), Plus(WordChars), Close(2),
      Lit(<<")">>)>>
\* /PRIMARY\s+KEY\s*\(([^)]+)\)/
PrimaryKeyPattern ==
    <<Lit(<<"P", "R", "I", "M", "A", "R", "Y">>), Plus(SpaceChars), Lit(<<"K", "E", "Y">>), Star(SpaceChars),
      Lit(<<"(">>), Open(1), NotPlus({")"}), Close(1), Lit(<<")">>)>>
\* /(\w[\w\s]+?)\s+INDEX\s+(\w+)\s+ON\s+(\w+)\s*\(([^)]+)\)(.*)/
IndexPattern ==
    <<Open(1), One(WordChars), LazyPlus(WordChars \cup SpaceChars), Close(1),
      Plus(SpaceChars), Lit(<<"I", "N", "D", "E", "X">>), Plus(SpaceChars),
      Open(2), Plus(WordChars), Close(2), Plus(SpaceChars), Lit(<<"O", "N">>),
      Plus(SpaceChars), Open(3), Plus(WordChars), Close(3), Star(SpaceChars),
      Lit(<<"(">>), Open(4), NotPlus({")"}), Close(4), Lit(<<")">>),
      Open(5), NotStar({"\n"}), Close(5)>>

\* the outcomes of parseSchema
NoError == "none"
InvalidColumnFormat == "invalid ddl column format"
InterleaveNotSupported == "NYI spanner: handle interleaved index"

\* the TableColumnOptions pushed for one column clause, cm being its match
ParseColumn(columnStmt, cm) ==
    The({ [name |-> Group(ColumnPattern, cm, columnStmt, 1),
           type |-> type.typeName,
           isNullable |-> IndexOf(Group(ColumnPattern, cm, columnStmt, 3), <<"N", "O", "T", " ", "N", "U", "L", "L">>) < 0,
           isGenerated |-> FALSE,
           isPrimary |-> FALSE,
           isUnique |-> FALSE,
           isArray |-> type.isArray,
           length |-> NumberToText(type.length),
           default |-> Undefined,
           generationStrategy |-> Undefined]
          : type \in {parseTypeName(Group(ColumnPattern, cm, columnStmt, 2))} })

RECURSIVE ParseColumnsSkipping(_, _)
\* the loop over the fragments with `continue` in the place of the throw
ParseColumnsSkipping(columnStmts, i) ==
    IF i > Len(columnStmts) THEN [error |-> NoError, columns |-> <<>>]
    ELSE The({ The({ IF cm = <<>> THEN rest
                     ELSE [error |-> NoError,
                           columns |-> <<ParseColumn(columnStmts[i], cm)>>
                                       \o rest.columns]
                     : rest \in {ParseColumnsSkipping(columnStmts, i + 1)} })
               : cm \in {SearchFrom(ColumnPattern, columnStmts[i], 1)} })

RECURSIVE ParseColumns(_, _)
\* the loop over columnStmts.split(','), from the i-th fragment on: the
\* columns, or the error thrown
ParseColumns(columnStmts, i) ==
    IF i > Len(columnStmts) THEN [error |-> NoError, columns |-> <<>>]
    ELSE The({ IF cm = <<>> THEN [error |-> InvalidColumnFormat, columns |-> <<>>]
               ELSE The({ IF rest.error # NoError THEN rest
                          ELSE [error |-> NoError,
                                columns |-> <<ParseColumn(columnStmts[i], cm)>>
                                            \o rest.columns]
                          : rest \in {ParseColumns(columnStmts, i + 1)} })
               : cm \in {SearchFrom(ColumnPattern, columnStmts[i], 1)} })

\* columns.find that finds no column
FindNoColumn(columns, name) == 0

\* columns.find(c => c.name == name): its index, 0 when there is none
FindColumn(columns, name) ==
    IF \E i \in 1..Len(columns) : columns[i].name = name
    THEN CHOOSE i \in 1..Len(columns) :
            /\ columns[i].name = name
            /\ \A j \in 1..(i - 1) : columns[j].name # name
    ELSE 0

\* options.isPrimary = true (primary) or options.isUnique = true, for the
\* column found for each of the names
Mark(columns, names, primary) ==
    [i \in 1..Len(columns) |->
        IF \E n \in 1..Len(names) : FindColumn(columns, names[n]) = i
        THEN IF primary THEN [columns[i] EXCEPT !.isPrimary = TRUE]
             ELSE [columns[i] EXCEPT !.isUnique = TRUE]
        ELSE columns[i]]

\* pm[1].split(',') without the trim
SplitNamesUntrimmed(text) == Split(text, ",")

\* pm[1].split(',').map(e => e.trim())
SplitNames(text) ==
    The({ [i \in 1..Len(parts) |-> Trim(parts[i])] : parts \in {Split(text, ",")} })

\* the body of the loop over the index statements of one table, for one
\* statement; t holds the columns, indices and uniques so far
ParseIndexStmt(t, idxStmt) ==
    IF IndexOf(idxStmt, <<"I", "N", "T", "E", "R", "L", "E", "A", "V", "E">>) = 0
    THEN IF SearchFrom(InterleavePattern, idxStmt, 1) # <<>>
         THEN [t EXCEPT !.error = InterleaveNotSupported]
         ELSE t
    ELSE IF IndexOf(idxStmt, <<"P", "R", "I", "M", "A", "R", "Y">>) = 0
    THEN The({ IF pm # <<>>
               THEN The({ [t EXCEPT !.columns = Mark(t.columns, names, TRUE)]
                          : names \in {SplitNames(Group(PrimaryKeyPattern, pm, idxStmt, 1))} })
               ELSE t
               : pm \in {SearchFrom(PrimaryKeyPattern, idxStmt, 1)} })
    ELSE The({ IF im # <<>>
               THEN The({ IF tableIndexOptions.isUnique
                          THEN [t EXCEPT
                                  !.indices = Append(t.indices, tableIndexOptions),
                                  !.uniques = Append(t.uniques,
                                      [name |-> tableIndexOptions.name,
                                       columnNames |-> tableIndexOptions.columnNames]),
                                  !.columns = Mark(t.columns,
                                                   tableIndexOptions.columnNames,
                                                   FALSE)]
                          ELSE [t EXCEPT !.indices = Append(t.indices, tableIndexOptions)]
                          : tableIndexOptions \in {
                              [name |-> Group(IndexPattern, im, idxStmt, 2),
                               columnNames |-> SplitNames(Group(IndexPattern, im, idxStmt, 4)),
                               isUnique |-> IndexOf(Group(IndexPattern, im, idxStmt, 1),
                                                    <<"U", "N", "I", "Q", "U", "E">>) >= 0,
                               isSpatial |-> IndexOf(Group(IndexPattern, im, idxStmt, 1),
                                                     <<"N", "U", "L", "L", "_", "F", "I", "L", "T", "E", "R", "E", "D">>) >= 0]} })
               ELSE t
               : im \in {SearchFrom(IndexPattern, idxStmt, 1)} })

RECURSIVE ParseIndexStmts(_, _, _)
\* the loop over the index statements, from the i-th on; it ends at the
\* first error thrown
ParseIndexStmts(t, idxStmts, i) ==
    IF i > Len(idxStmts) \/ t.error # NoError THEN t
    ELSE The({ ParseIndexStmts(next, idxStmts, i + 1)
               : next \in {ParseIndexStmt(t, idxStmts[i])} })

\* tableOptionsMap[tableName] = options: a new key comes last, a key that is
\* there keeps its place
PutTable(tables, t) ==
    IF \E i \in 1..Len(tables) : tables[i].name = t.name
    THEN [i \in 1..Len(tables) |-> IF tables[i].name = t.name THEN t ELSE tables[i]]
    ELSE Append(tables, t)

\* the body of the loop over the DDL statements, for one statement with its
\* match m of CreateTablePattern
ParseTable(stmt, m) ==
    The({ IF cols.error # NoError
          THEN [error |-> cols.error, name |-> <<>>, columns |-> <<>>,
                indices |-> <<>>, foreignKeys |-> <<>>, uniques |-> <<>>]
          ELSE The({ ParseIndexStmts(
                        [error |-> NoError,
                         name |-> Group(CreateTablePattern, m, stmt, 1),
                         columns |-> cols.columns, indices |-> <<>>,
                         foreignKeys |-> <<>>, uniques |-> <<>>],
                        idxStmts, 1)
                     : idxStmts \in {MatchAll(IndexStmtPattern,
                                              Group(CreateTablePattern, m, stmt, 3))} })
          : cols \in { The({ ParseColumns(columnStmts, 1)
                             : columnStmts \in {Split(Group(CreateTablePattern, m, stmt, 2),
                                                      ",")} }) } })

\* new Table(options): the table descriptor kept in the cache
NewTable(t) ==
    [name |-> t.name, columns |-> t.columns, indices |-> t.indices,
     foreignKeys |-> t.foreignKeys, uniques |-> t.uniques]

RECURSIVE ParseStatementsThrowing(_, _, _)
\* the loop over the statements with the throw of line 805 in the place of
\* `continue`
ParseStatementsThrowing(ddlStatements, i, tables) ==
    IF i > Len(ddlStatements) THEN [error |-> NoError, tables |-> tables]
    ELSE The({ IF m = <<>>
               THEN [error |-> "invalid ddl format", tables |-> <<>>]
               ELSE The({ IF t.error # NoError
                          THEN [error |-> t.error, tables |-> <<>>]
                          ELSE The({ ParseStatementsThrowing(ddlStatements, i + 1, put)
                                     : put \in {PutTable(tables, NewTable(t))} })
                          : t \in {ParseTable(ddlStatements[i], m)} })
               : m \in {SearchFrom(CreateTablePattern, ddlStatements[i], 1)} })

RECURSIVE ParseStatementsKeeping(_, _, _)
\* the loop over the statements that ends at a statement that cannot be
\* parsed and answers the tables parsed before it
ParseStatementsKeeping(ddlStatements, i, tables) ==
    IF i > Len(ddlStatements) THEN [error |-> NoError, tables |-> tables]
    ELSE The({ IF m = <<>>
               THEN ParseStatementsKeeping(ddlStatements, i + 1, tables)
               ELSE The({ IF t.error # NoError
                          THEN [error |-> NoError, tables |-> tables]
                          ELSE The({ ParseStatementsKeeping(ddlStatements, i + 1, put)
                                     : put \in {PutTable(tables, NewTable(t))} })
                          : t \in {ParseTable(ddlStatements[i], m)} })
               : m \in {SearchFrom(CreateTablePattern, ddlStatements[i], 1)} })

RECURSIVE ParseStatements(_, _, _)
\* the loop over ddlStatements, from the i-th on; tables is tableOptionsMap so far
ParseStatements(ddlStatements, i, tables) ==
    IF i > Len(ddlStatements) THEN [error |-> NoError, tables |-> tables]
    ELSE The({ IF m = <<>>
               THEN ParseStatements(ddlStatements, i + 1, tables)   \* continue
               ELSE The({ IF t.error # NoError
                          THEN [error |-> t.error, tables |-> <<>>]
                          ELSE The({ ParseStatements(ddlStatements, i + 1, put)
                                     : put \in {PutTable(tables, NewTable(t))} })
                          : t \in {ParseTable(ddlStatements[i], m)} })
               : m \in {SearchFrom(CreateTablePattern, ddlStatements[i], 1)} })

\* parseSchema(ddlStatements): the mapping of table names to tables, as the
\* sequence of its values in key order, or the error it throws
parseSchema(ddlStatements) ==
    The({ ParseStatements(statements, 1, <<>>) : statements \in {ddlStatements} })

-----------------------------------------------------------------------------
(* The calls of findChangedColumns that are explored *)

\* the longest list of live columns and of desired columns
MaxCols == 2

\* the column whose fields vary, and a second column
FocusName == <<"c">>
OtherName == <<"d">>
ColumnNames == {FocusName, OtherName}

\* a live column (TableColumn) as the schema parser leaves a nullable
\* STRING(255) column
LiveBase(n) ==
    [name |-> n, type |-> TextString, length |-> Str(<<"2", "5", "5">>), width |-> Undefined,
     precision |-> Undefined, scale |-> Undefined, zerofill |-> FALSE,
     unsigned |-> FALSE, asExpression |-> Undefined, generatedType |-> Undefined,
     default |-> Undefined, onUpdate |-> Undefined, isPrimary |-> FALSE,
     isNullable |-> TRUE, isUnique |-> FALSE, isGenerated |-> FALSE]

\* the desired column (ColumnMetadata) that agrees with LiveBase
DesiredBase(n) ==
    [databaseName |-> n, propertyName |-> n, type |-> Ctor(<<"S", "t", "r", "i", "n", "g">>),
     length |-> Str(<<"2", "5", "5">>), width |-> Undefined, precision |-> Undefined,
     scale |-> Undefined, zerofill |-> FALSE, unsigned |-> FALSE,
     asExpression |-> Undefined, generatedType |-> Undefined,
     default |-> Undefined, isUpdateDate |-> FALSE, onUpdate |-> Undefined,
     isPrimary |-> FALSE, isNullable |-> TRUE, isGenerated |-> FALSE,
     generationStrategy |-> Undefined, entityMetadata |-> [indices |-> <<>>]]

\* the live columns explored for the focus name: LiveBase with one field
\* changed
LiveVariants ==
    LET b == LiveBase(FocusName)
    IN  {b}
        \cup {[b EXCEPT !.type = x] : x \in {TextInt64, TextBool}}
        \cup {[b EXCEPT !.length = Str(<<"1">>)], [b EXCEPT !.width = Num(20)],
              [b EXCEPT !.precision = Num(22)], [b EXCEPT !.scale = Num(2)],
              [b EXCEPT !.zerofill = TRUE], [b EXCEPT !.unsigned = TRUE],
              [b EXCEPT !.asExpression = Str(<<"e">>)],
              [b EXCEPT !.generatedType = Str(<<"S", "T", "O", "R", "E", "D">>)],
              [b EXCEPT !.onUpdate = Str(<<"u">>)], [b EXCEPT !.isPrimary = TRUE],
              [b EXCEPT !.isNullable = FALSE], [b EXCEPT !.isUnique = TRUE],
              [b EXCEPT !.isGenerated = TRUE]}
        \cup {[b EXCEPT !.default = x] :
                x \in {Str(<<"x">>), Str(<<"'", "x", "'">>), Str(<<"'", "'", "x">>), Str(<<"5">>), Str(<<"t", "r", "u", "e">>),
                       Str(TextCommitTimestamp)}}

\* the unique and plain indices an entity may declare over the focus column
IndexVariants ==
    { <<[isUnique |-> TRUE, columns |-> <<FocusName>>]>>,
      <<[isUnique |-> FALSE, columns |-> <<FocusName>>]>>,
      <<[isUnique |-> TRUE, columns |-> <<FocusName, OtherName>>]>> }

\* the desired columns explored for the focus name
DesiredVariants ==
    LET b == DesiredBase(FocusName)
    IN  {b}
        \cup {[b EXCEPT !.type = x] :
                x \in {Ctor(<<"N", "u", "m", "b", "e", "r">>), Str(<<"i", "n", "t", "e", "g", "e", "r">>), Str(<<"n", "v", "a", "r", "c", "h", "a", "r">>), Ctor(<<"D", "a", "t", "e">>),
                       Ctor(<<"B", "u", "f", "f", "e", "r">>), Ctor(<<"B", "o", "o", "l", "e", "a", "n">>), Str(<<"s", "i", "m", "p", "l", "e", "-", "a", "r", "r", "a", "y">>),
                       Str(<<"s", "i", "m", "p", "l", "e", "-", "j", "s", "o", "n">>), Str(TextInt64), Str(TextString),
                       Str(TextBool), Undefined}}
        \cup {[b EXCEPT !.length = Str(<<"1">>)], [b EXCEPT !.width = Num(20)],
              [b EXCEPT !.precision = Num(22)], [b EXCEPT !.scale = Num(2)],
              [b EXCEPT !.zerofill = TRUE], [b EXCEPT !.unsigned = TRUE],
              [b EXCEPT !.asExpression = Str(<<"e">>)],
              [b EXCEPT !.generatedType = Str(<<"S", "T", "O", "R", "E", "D">>)],
              [b EXCEPT !.onUpdate = Str(<<"u">>)], [b EXCEPT !.isPrimary = TRUE],
              [b EXCEPT !.isNullable = FALSE], [b EXCEPT !.isGenerated = TRUE],
              [b EXCEPT !.isUpdateDate = TRUE]}
        \cup {[b EXCEPT !.default = x] :
                x \in {Str(<<"x">>), Str(<<"'", "x", "'">>), Num(5), Bool(TRUE), Fn(<<"n", "(", ")">>), Null}}
        \cup {[b EXCEPT !.generationStrategy = Str(x)] : x \in {TextUuid, TextIncrement}}
        \cup {[b EXCEPT !.generationStrategy = Str(x), !.isGenerated = TRUE] :
                x \in {TextUuid, TextIncrement}}
        \cup {[b EXCEPT !.entityMetadata = [indices |-> x]] : x \in IndexVariants}

\* the second column: live and desired differ in nullability
LiveColumn(n, focus) == IF n = FocusName THEN focus ELSE LiveBase(n)
DesiredColumn(n, focus) ==
    IF n = FocusName THEN focus ELSE [DesiredBase(n) EXCEPT !.isNullable = FALSE]

NotDiffed == [done |-> FALSE, cols |-> <<>>]

InitDiff ==
    /\ \E names \in SeqsUpTo(ColumnNames, MaxCols), focus \in LiveVariants :
          tableColumns = [i \in 1..Len(names) |-> LiveColumn(names[i], focus)]
    /\ \E names \in SeqsUpTo(ColumnNames, MaxCols), focus \in DesiredVariants :
          columnMetadatas = [i \in 1..Len(names) |-> DesiredColumn(names[i], focus)]
    /\ changed = NotDiffed

IdleDiff ==
    /\ tableColumns = <<>>
    /\ columnMetadatas = <<>>
    /\ changed = NotDiffed

\* one call of findChangedColumns
FindChanged ==
    /\ ~changed.done
    /\ changed' = [done |-> TRUE, cols |-> findChangedColumns(tableColumns, columnMetadatas)]
    /\ UNCHANGED <<tableColumns, columnMetadatas>>

-----------------------------------------------------------------------------
(* updateTableWithExtendSchema *)

\* !!v
Truthy(v) ==
    ~ \/ v.t \in {"undefined", "null"}
      \/ v.t = "number" /\ v.n = 0
      \/ v.t = "boolean" /\ v.n = 0
      \/ v.t = "string" /\ v.s = <<>>

\* An extended schema maps table names to entries and an entry maps column
\* names to column schemas. Both are kept as sequences in key order: the
\* entries as [table, columns], the column schemas of an entry as
\* [column, generator, default, generatorStorategy].

\* extendSchemas[tableName]: the entry's column schemas, <<>> when undefined
ExtendSchemaOf(extendSchemas, tableName) ==
    IF \E i \in 1..Len(extendSchemas) : extendSchemas[i].table = tableName
    THEN extendSchemas[CHOOSE i \in 1..Len(extendSchemas) :
                           extendSchemas[i].table = tableName].columns
    ELSE <<>>

\* table.findColumnByName(columnName): its index in table.columns, 0 for none
findColumnByName(table, columnName) == FindColumn(table.columns, columnName)

RECURSIVE OverlayColumnsUntilMissing(_, _)
\* the loop over the column names that ends at the first column the table
\* does not have
OverlayColumnsUntilMissing(table, columnSchemas) ==
    IF columnSchemas = <<>> THEN table
    ELSE LET columnSchema == Head(columnSchemas)
             i == findColumnByName(table, columnSchema.column)
         IN  IF i = 0 THEN table
             ELSE OverlayColumnsUntilMissing(
                    [table EXCEPT
                        !.columns[i].isGenerated = Truthy(columnSchema.generator),
                        !.columns[i].default = columnSchema.default,
                        !.columns[i].generationStrategy =
                            columnSchema.generatorStorategy],
                    Tail(columnSchemas))

RECURSIVE OverlayColumns(_, _)
\* the loop over the column names of one extend schema
OverlayColumns(table, columnSchemas) ==
    IF columnSchemas = <<>> THEN table
    ELSE LET columnSchema == Head(columnSchemas)
             i == findColumnByName(table, columnSchema.column)
         IN  OverlayColumns(
                IF i # 0
                THEN [table EXCEPT
                        !.columns[i].isGenerated = Truthy(columnSchema.generator),
                        !.columns[i].default = columnSchema.default,
                        !.columns[i].generationStrategy =
                            columnSchema.generatorStorategy]
                ELSE table,   \* logged and skipped
                Tail(columnSchemas))

\* updateTableWithExtendSchema(db, extendSchemas): db after the overlay in place
\* on its tables, and the value returned
updateTableWithExtendSchema(db, extendSchemas) ==
    [db |-> [db EXCEPT !.tables =
                [i \in 1..Len(db.tables) |->
                    [db.tables[i] EXCEPT !.table =
                        OverlayColumns(db.tables[i].table,
                                       ExtendSchemaOf(extendSchemas,
                                                      db.tables[i].name))]]],
     returned |-> extendSchemas]

-----------------------------------------------------------------------------
(* The database and the callers of the driver that are explored *)

\* the schemas a database may have: what handle.getSchema() returns as
\* schemaResponse[0]
DdlCatalogue ==
    << \* no CREATE TABLE statement
       <<<<"C", "R", "E", "A", "T", "E", " ", "I", "N", "D", "E", "X", " ", "i", " ", "O", "N", " ", "t", "(", "a", ")">>>>,
       \* one table
       <<<<"C", "R", "E", "A", "T", "E", " ", "T", "A", "B", "L", "E", " ", "t", " ", "(", "a", " ", "I", "N", "T", "6", "4", " ", "N", "O", "T", " ", "N", "U", "L", "L", ",", "b", " ", "S", "T", "R", "I", "N", "G", "(", "9", ")", ",", ")", " ", "P", "R", "I", "M", "A", "R", "Y", " ", "K", "E", "Y", "(", "a", ")">>>>,
       \* two tables and a statement that is skipped
       <<<<"C", "R", "E", "A", "T", "E", " ", "T", "A", "B", "L", "E", " ", "t", " ", "(", "a", " ", "I", "N", "T", "6", "4", " ", "N", "O", "T", " ", "N", "U", "L", "L", ",", "b", " ", "S", "T", "R", "I", "N", "G", "(", "9", ")", ",", ")", " ", "P", "R", "I", "M", "A", "R", "Y", " ", "K", "E", "Y", "(", "a", ")">>,
         <<"C", "R", "E", "A", "T", "E", " ", "I", "N", "D", "E", "X", " ", "i", " ", "O", "N", " ", "t", "(", "a", ")">>,
         <<"C", "R", "E", "A", "T", "E", " ", "T", "A", "B", "L", "E", " ", "u", " ", "(", "a", " ", "I", "N", "T", "6", "4", ",", ")", " ", "P", "R", "I", "M", "A", "R", "Y", " ", "K", "E", "Y", "(", "a", ")", ",", " ", "C", "R", "E", "A", "T", "E", " ", "U", "N", "I", "Q", "U", "E", " ", "I", "N", "D", "E", "X", " ", "j", " ", "O", "N", " ", "u", "(", "a", ")">>>>,
       \* a column clause without a type
       <<<<"C", "R", "E", "A", "T", "E", " ", "T", "A", "B", "L", "E", " ", "t", " ", "(", "a", ",", ")", " ", "P", "R", "I", "M", "A", "R", "Y", " ", "K", "E", "Y", "(", "a", ")">>>>,
       \* a table, and then a table that is interleaved in it
       <<<<"C", "R", "E", "A", "T", "E", " ", "T", "A", "B", "L", "E", " ", "t", " ", "(", "a", " ", "I", "N", "T", "6", "4", " ", "N", "O", "T", " ", "N", "U", "L", "L", ",", "b", " ", "S", "T", "R", "I", "N", "G", "(", "9", ")", ",", ")", " ", "P", "R", "I", "M", "A", "R", "Y", " ", "K", "E", "Y", "(", "a", ")">>,
         <<"C", "R", "E", "A", "T", "E", " ", "T", "A", "B", "L", "E", " ", "u", " ", "(", "a", " ", "I", "N", "T", "6", "4", " ", "N", "O", "T", " ", "N", "U", "L", "L", ",", ")", " ", "P", "R", "I", "M", "A", "R", "Y", " ", "K", "E", "Y", "(", "a", ")", ",", " ", "I", "N", "T", "E", "R", "L", "E", "A", "V", "E", " ", "I", "N", " ", "P", "A", "R", "E", "N", "T", " ", "t", "(", "a", ")">>>> >>

\* parseSchema of each schema of the catalogue
ParsedCatalogue == [i \in 1..Len(DdlCatalogue) |-> parseSchema(DdlCatalogue[i])]

\* what the metadata table may hold: for table t a column that the schema
\* does not have, then a generated column and a column with a default; and
\* an entry for a table that the schema does not have
ExtendCatalogue ==
    << <<[table |-> <<"t">>,
          columns |->
            <<[column |-> <<"z">>, generator |-> Undefined,
               default |-> Str(<<"0">>), generatorStorategy |-> Undefined],
              [column |-> <<"a">>, generator |-> Str(TextUuid),
               default |-> Undefined, generatorStorategy |-> Str(TextUuid)],
              [column |-> <<"b">>, generator |-> Undefined,
               default |-> Str(<<"0">>), generatorStorategy |-> Undefined]>>],
         [table |-> <<"x">>,
          columns |->
            <<[column |-> <<"a">>, generator |-> Str(TextIncrement),
               default |-> Undefined, generatorStorategy |-> Str(TextIncrement)]>>]>> >>

\* the arguments loadTables is called with
LoadRequests == { <<<<"t">>>>, <<<<"d", ".", "u">>, <<"t">>>> }

\* the tables setTable is called with: objects of the caller
CallerTable(name) ==
    [name |-> name,
     columns |-> <<[name |-> <<"k">>, type |-> TextInt64, isNullable |-> FALSE,
                    isGenerated |-> FALSE, isPrimary |-> TRUE, isUnique |-> FALSE,
                    isArray |-> FALSE, length |-> <<"1">>, default |-> Undefined,
                    generationStrategy |-> Undefined]>>,
     indices |-> <<>>, foreignKeys |-> <<>>, uniques |-> <<>>]
SetTableArguments == {CallerTable(<<"v">>)}

\* bounds of the exploration
MaxConn == 2       \* connections established
MaxFetch == 2      \* getSchema invocations
MaxLoads == 2      \* loadTables calls pending at once
MaxPending == 1    \* afterConnect calls pending at once
MaxConnecting == 2 \* connect calls pending at once

-----------------------------------------------------------------------------
(* The driver: connect, disconnect, setTable, loadTables, afterConnect *)

\* database.schemas: null, or an extended schema
NullSchemas == [isNull |-> TRUE, entries |-> <<>>]

\* the SpannerDatabase object connect creates; the handle counts the
\* getSchema invocations made on it
NewDatabase ==
    [handle |-> [getSchemaCalls |-> 0], tables |-> <<>>, schemas |-> NullSchemas]

\* The identity of a Table object: [database, fetch], the fetch whose parse
\* created it, or the caller for a table handed to setTable.
CallerObject == [database |-> 0, fetch |-> 0]

\* database.tables is a sequence of entries in key order, each with the key,
\* the identity of the Table object and the object's present content.
Entry(name, object, table) == [name |-> name, object |-> object, table |-> table]

\* database.tables[name]: <<the entry>>, or <<>> for undefined
TablesAt(tables, name) == SelectSeq(tables, LAMBDA e : e.name = name)

\* database.tables[name] = table
PutEntry(tables, e) ==
    IF \E i \in 1..Len(tables) : tables[i].name = e.name
    THEN [i \in 1..Len(tables) |-> IF tables[i].name = e.name THEN e ELSE tables[i]]
    ELSE Append(tables, e)

\* the mapping parseSchema returned to one fetch, as database.tables
Cached(tables, database, fetch) ==
    [i \in 1..Len(tables) |->
        Entry(tables[i].name, [database |-> database, fetch |-> fetch], tables[i])]

\* let [dbname, name] = tableName.split("."); if (!name) name = dbname
TableName(tableName) ==
    LET parts == Split(tableName, ".")
    IN  IF Len(parts) >= 2 /\ parts[2] # <<>> THEN parts[2] ELSE parts[1]

\* the errors thrown
NotConnected == "connect() driver first"
NotConnectedSetTable == "connect() driver first!"
TypeErrorOfNull == "TypeError: Cannot read properties of null"
NoActiveDatabase == "no active database"
TypeErrorNotAFunction == "TypeError: handle.delete.then is not a function"

\* a step of the driver: the operation, the database object it acted on, the
\* error thrown or rejected with, and the tables returned
Step(op, database, error, result) ==
    [op |-> op, database |-> database, error |-> error, result |-> result]

\* the getSchema invocations made so far on all handles
RECURSIVE GetSchemaCalls(_)
GetSchemaCalls(dbs) ==
    IF dbs = <<>> THEN 0
    ELSE Head(dbs).handle.getSchemaCalls + GetSchemaCalls(Tail(dbs))

\* const database = this.spanner.database: the object a loadTables call
\* captured, which its tasks read and assign to
CapturedDatabaseCurrent(call, current) == IF current = 0 THEN call.database ELSE current
CapturedDatabase(call, current) == call.database

\* queryRunner.createAndLoadSchemaTableIfNotExists(schemaTableName): the
\* extended schemas read from the metadata table
createAndLoadSchemaTableIfNotExists(store) == ExtendCatalogue[store]

InitDriver ==
    /\ ddl \in 1..Len(DdlCatalogue)
    /\ extendStore \in 1..Len(ExtendCatalogue)
    /\ spanner = 0
    /\ databases = <<>>
    /\ connecting = 0
    /\ loading = <<>>
    /\ afterConnecting = 0
    /\ loaded = {}
    /\ lastStep = Step("new", 0, NoError, <<>>)

IdleDriver ==
    /\ ddl = 1
    /\ extendStore = 1
    /\ spanner = 0
    /\ databases = <<>>
    /\ connecting = 0
    /\ loading = <<>>
    /\ afterConnecting = 0
    /\ loaded = {}
    /\ lastStep = Step("new", 0, NoError, <<>>)

\* connect(), up to its await of database.get
Connect ==
    /\ UNCHANGED <<escapeVars, diffVars, callVars>>
    /\ IF spanner # 0
       THEN UNCHANGED connecting
       ELSE /\ connecting < MaxConnecting
            /\ Len(databases) + connecting < MaxConn
            /\ connecting' = connecting + 1
    /\ lastStep' = Step("connect", spanner, NoError, <<>>)
    /\ UNCHANGED <<ddl, extendStore, spanner, databases, loading,
                   afterConnecting, loaded>>

\* getDatabaseHandle(), up to its await of connect() when there is no
\* connection; what follows the await reads this.spanner and changes nothing
GetDatabaseHandle ==
    /\ UNCHANGED <<escapeVars, diffVars, callVars>>
    /\ IF spanner # 0
       THEN UNCHANGED connecting
       ELSE /\ connecting < MaxConnecting
            /\ Len(databases) + connecting < MaxConn
            /\ connecting' = connecting + 1
    /\ lastStep' = Step("getDatabaseHandle", spanner, NoError, <<>>)
    /\ UNCHANGED <<ddl, extendStore, spanner, databases, loading,
                   afterConnecting, loaded>>

\* connect(), from database.get on: this.spanner = {client, instance, database}
Connected ==
    /\ UNCHANGED <<escapeVars, diffVars, callVars>>
    /\ connecting > 0
    /\ connecting' = connecting - 1
    /\ databases' = Append(databases, NewDatabase)
    /\ spanner' = Len(databases) + 1
    /\ lastStep' = Step("connected", Len(databases) + 1, NoError, <<>>)
    /\ UNCHANGED <<ddl, extendStore, loading, afterConnecting, loaded>>

\* disconnect()
Disconnect ==
    /\ UNCHANGED <<escapeVars, diffVars, callVars>>
    /\ spanner' = 0
    /\ lastStep' = Step("disconnect", spanner, NoError, <<>>)
    /\ UNCHANGED <<ddl, extendStore, databases, connecting, loading,
                   afterConnecting, loaded>>

\* setTable(table)
SetTable ==
    /\ UNCHANGED <<escapeVars, diffVars, callVars>>
    /\ \E table \in SetTableArguments :
        /\ IF spanner = 0
           THEN /\ lastStep' = Step("setTable", 0, NotConnectedSetTable, <<>>)
                /\ UNCHANGED databases
           ELSE /\ databases' =
                      [databases EXCEPT ![spanner].tables =
                          PutEntry(@, Entry(table.name, CallerObject, table))]
                /\ lastStep' = Step("setTable", spanner, NoError, <<>>)
        /\ UNCHANGED <<ddl, extendStore, spanner, connecting, loading,
                       afterConnecting, loaded>>

\* Promise.all(...).then(tables => tables.filter(t => !!t)) once every task
\* returned: the values of the tasks that are not undefined, in task order
RECURSIVE Filtered(_)
Filtered(tasks) ==
    IF tasks = <<>> THEN <<>> ELSE Head(tasks).value \o Filtered(Tail(tasks))

\* the test that skips the fetch while any fetch is pending
NoTablesAndNoneLoading(database) == Len(database.tables) = 0 /\ loading = <<>>
\* Object.keys(database.tables).length === 0
NoTables(database) == Len(database.tables) = 0

\* loadTables(tableNames), up to the await of handle.getSchema in each task;
\* every task runs up to there before any of them resumes, so all of them
\* see the same database.tables
LoadTables ==
    /\ UNCHANGED <<escapeVars, diffVars, callVars>>
    /\ \E tableNames \in LoadRequests :
        IF spanner = 0
        THEN /\ lastStep' = Step("loadTables", 0, NotConnected, <<>>)
             /\ UNCHANGED <<ddl, extendStore, spanner, databases, connecting,
                            loading, afterConnecting, loaded>>
        ELSE LET database == databases[spanner]
                 names == [i \in 1..Len(tableNames) |-> TableName(tableNames[i])]
             IN  IF NoTables(database)
                 THEN /\ Len(loading) < MaxLoads
                      /\ GetSchemaCalls(databases) + Len(names) <= MaxFetch
                      /\ databases' =
                            [databases EXCEPT ![spanner].handle.getSchemaCalls =
                                @ + Len(names)]
                      /\ loading' = Append(loading,
                            [database |-> spanner,
                             tasks |-> [i \in 1..Len(names) |->
                                 [name |-> names[i], stage |-> "getSchema",
                                  fetch |-> database.handle.getSchemaCalls + i,
                                  value |-> <<>>]],
                             rejected |-> FALSE,
                             \* history: afterConnect had completed on the
                             \* database when the call was made
                             afterConnected |-> ~database.schemas.isNull])
                      /\ lastStep' = Step("loadTables", spanner, NoError, <<>>)
                      /\ UNCHANGED <<ddl, extendStore, spanner, connecting,
                                     afterConnecting, loaded>>
                 ELSE /\ lastStep' =
                            Step("loadTablesResolved", spanner, NoError,
                                 Filtered([i \in 1..Len(names) |->
                                     [value |-> TablesAt(database.tables, names[i])]]))
                      /\ loaded' = loaded \cup {spanner}
                      /\ UNCHANGED <<ddl, extendStore, spanner, databases,
                                     connecting, loading, afterConnecting>>

\* handle.getSchema() returns to one task, which calls parseSchema and awaits it
GetSchemaReturned ==
    /\ UNCHANGED <<escapeVars, diffVars, callVars>>
    /\ \E c \in 1..Len(loading) : \E i \in 1..Len(loading[c].tasks) :
        /\ loading[c].tasks[i].stage = "getSchema"
        /\ loading' = [loading EXCEPT ![c].tasks[i].stage = "parseSchema"]
        /\ lastStep' = Step("getSchema", loading[c].database, NoError, <<>>)
        /\ UNCHANGED <<ddl, extendStore, spanner, databases, connecting,
                       afterConnecting, loaded>>

\* loading without its c-th call
WithoutCall(calls, c) == [k \in 1..(Len(calls) - 1) |-> IF k < c THEN calls[k] ELSE calls[k + 1]]

\* parseSchema returns to one task: database.tables = the mapping parsed and
\* return database.tables[name], or the error of parseSchema is thrown; the
\* promise of loadTables settles when the last task returned or the first threw
ParseSchemaReturned ==
    /\ UNCHANGED <<escapeVars, diffVars, callVars>>
    /\ \E c \in 1..Len(loading) : \E i \in 1..Len(loading[c].tasks) :
        LET call == loading[c]
            task == call.tasks[i]
            parsed == ParsedCatalogue[ddl]
            database == CapturedDatabase(call, spanner)
            tables == Cached(parsed.tables, call.database, task.fetch)
            after == IF parsed.error # NoError
                     THEN [call EXCEPT !.tasks[i].stage = "failed", !.rejected = TRUE]
                     ELSE [call EXCEPT !.tasks[i].stage = "done",
                                       !.tasks[i].value = TablesAt(tables, task.name)]
            settled == \A j \in 1..Len(after.tasks) :
                          after.tasks[j].stage \in {"done", "failed"}
        IN  /\ task.stage = "parseSchema"
            /\ databases' = IF parsed.error # NoError THEN databases
                            ELSE [databases EXCEPT ![database].tables = tables]
            /\ loading' = IF settled THEN WithoutCall(loading, c)
                          ELSE [loading EXCEPT ![c] = after]
            /\ lastStep' =
                  IF parsed.error # NoError
                  THEN IF call.rejected
                       THEN Step("parseSchema", call.database, parsed.error, <<>>)
                       ELSE Step("loadTablesRejected", call.database, parsed.error, <<>>)
                  ELSE IF settled /\ ~after.rejected
                       THEN Step("loadTablesResolved", call.database, NoError,
                                 Filtered(after.tasks))
                       ELSE Step("parseSchema", call.database, NoError, <<>>)
            /\ loaded' = IF settled /\ ~after.rejected
                         THEN loaded \cup {call.database} ELSE loaded
            /\ UNCHANGED <<ddl, extendStore, spanner, connecting, afterConnecting>>

\* afterConnect(), up to its await of the query runner
AfterConnect ==
    /\ UNCHANGED <<escapeVars, diffVars, callVars>>
    /\ IF spanner = 0
       THEN /\ lastStep' = Step("afterConnect", 0, NotConnected, <<>>)
            /\ UNCHANGED afterConnecting
       ELSE /\ afterConnecting < MaxPending
            /\ afterConnecting' = afterConnecting + 1
            /\ lastStep' = Step("afterConnect", spanner, NoError, <<>>)
    /\ UNCHANGED <<ddl, extendStore, spanner, databases, connecting, loading,
                   loaded>>

\* afterConnect(), from the extended schemas on: this.spanner is read again
AfterConnected ==
    /\ UNCHANGED <<escapeVars, diffVars, callVars>>
    /\ afterConnecting > 0
    /\ afterConnecting' = afterConnecting - 1
    /\ IF spanner = 0
       THEN /\ lastStep' = Step("afterConnected", 0, TypeErrorOfNull, <<>>)
            /\ UNCHANGED databases
       ELSE LET r == updateTableWithExtendSchema(
                        databases[spanner],
                        createAndLoadSchemaTableIfNotExists(extendStore))
            IN  /\ databases' = [databases EXCEPT ![spanner] =
                                    [r.db EXCEPT !.schemas =
                                        [isNull |-> FALSE, entries |-> r.returned]]]
                /\ lastStep' = Step("afterConnected", spanner, NoError, <<>>)
    /\ UNCHANGED <<ddl, extendStore, spanner, connecting, loading, loaded>>

\* the names createDatabase and dropDatabase are called with:
\* this.options.database and another name
OptionsDatabase == <<"d">>
DatabaseNames == {OptionsDatabase, <<"e">>}

\* createDatabase(name): the handle of the connection for the driver's own
\* database, a database created on the instance for another name; neither
\* touches the driver
CreateDatabase ==
    /\ UNCHANGED <<escapeVars, diffVars, callVars>>
    /\ \E name \in DatabaseNames :
          lastStep' = IF spanner = 0
                      THEN Step("createDatabase", 0, NotConnected, <<>>)
                      ELSE Step("createDatabase", spanner, NoError, <<>>)
    /\ UNCHANGED <<ddl, extendStore, spanner, databases, connecting, loading,
                   afterConnecting, loaded>>

\* dropDatabase(name): for the driver's own database, handle.delete.then is
\* read off the method delete, which has no then: the call of undefined
\* throws before anything is deleted and before disconnect; another name is
\* deleted on the instance
DropDatabase ==
    /\ UNCHANGED <<escapeVars, diffVars, callVars>>
    /\ \E name \in DatabaseNames :
          lastStep' = IF spanner = 0
                      THEN Step("dropDatabase", 0, NotConnected, <<>>)
                      ELSE IF name = OptionsDatabase
                      THEN Step("dropDatabase", spanner, TypeErrorNotAFunction, <<>>)
                      ELSE Step("dropDatabase", spanner, NoError, <<>>)
    /\ UNCHANGED <<ddl, extendStore, spanner, databases, connecting, loading,
                   afterConnecting, loaded>>

\* obtainMasterConnection() that connects when there is no connection, as
\* getDatabaseHandle does
ObtainMasterConnectionReconnecting ==
    /\ UNCHANGED <<escapeVars, diffVars, callVars>>
    /\ IF spanner = 0
       THEN /\ connecting < MaxPending
            /\ Len(databases) + connecting < MaxConn
            /\ connecting' = connecting + 1
       ELSE UNCHANGED connecting
    /\ lastStep' = Step("obtainMasterConnection", spanner, NoError, <<>>)
    /\ UNCHANGED <<ddl, extendStore, spanner, databases, loading,
                   afterConnecting, loaded>>

\* obtainMasterConnection()
ObtainMasterConnection ==
    /\ UNCHANGED <<escapeVars, diffVars, callVars>>
    /\ lastStep' = IF spanner = 0
                   THEN Step("obtainMasterConnection", 0, NoActiveDatabase, <<>>)
                   ELSE Step("obtainMasterConnection", spanner, NoError, <<>>)
    /\ UNCHANGED <<ddl, extendStore, spanner, databases, connecting, loading,
                   afterConnecting, loaded>>

-----------------------------------------------------------------------------
(* Single calls of compareDefaultValues, preparePersistentValue,           *)
(* prepareHydratedValue and parseSchema                                    *)

\* supportedDataTypes
supportedDataTypes ==
    {<<"i", "n", "t", "6", "4">>, <<"b", "y", "t", "e", "s">>, <<"b", "o", "o", "l">>, <<"d", "a", "t", "e">>, <<"f", "l", "o", "a", "t", "6", "4">>, <<"s", "t", "r", "i", "n", "g">>, <<"t", "i", "m", "e", "s", "t", "a", "m", "p">>}

\* columnMetadata.transformer: none, or one whose to() and from() return
\* their argument, or one whose to() and from() return null
Transform(transformer, v) ==
    IF transformer = "null" THEN Null ELSE v

\* the outcome of a preparation: the value returned, or the
\* DataTypeNotSupportedError thrown with the column's type
Returned(v) == [error |-> NoError, type |-> Undefined, value |-> v]
DataTypeNotSupportedError(columnMetadata) ==
    [error |-> "DataTypeNotSupportedError", type |-> columnMetadata.type,
     value |-> Undefined]

\* preparePersistentValue(value, columnMetadata)
preparePersistentValue(value, columnMetadata) ==
    The({ IF v = Null \/ v = Undefined
          THEN Returned(v)
          ELSE IF \/ columnMetadata.type = Str(<<"t", "i", "m", "e", "s", "t", "a", "m", "p">>)
                  \/ columnMetadata.type = Str(<<"d", "a", "t", "e">>)
                  \/ columnMetadata.type = Ctor(<<"D", "a", "t", "e">>)
          THEN Returned([v EXCEPT !.t = "date"])   \* DateUtils.mixedDateToDate
          ELSE IF \/ columnMetadata.type = Str(<<"i", "n", "t", "6", "4">>)
                  \/ columnMetadata.type = Str(<<"f", "l", "o", "a", "t", "6", "4">>)
                  \/ columnMetadata.type = Str(<<"b", "o", "o", "l">>)
                  \/ columnMetadata.type = Str(<<"s", "t", "r", "i", "n", "g">>)
                  \/ columnMetadata.type = Ctor(<<"S", "t", "r", "i", "n", "g">>)   \* .name === "String"
                  \/ columnMetadata.type = Ctor(<<"N", "u", "m", "b", "e", "r">>)   \* .name === "Number"
                  \/ columnMetadata.type = Str(<<"b", "y", "t", "e", "s">>)
          THEN Returned(v)
          ELSE DataTypeNotSupportedError(columnMetadata)
          : v \in { IF columnMetadata.transformer # "none"
                    THEN Transform(columnMetadata.transformer, value)
                    ELSE value } })

\* prepareHydratedValue(value, columnMetadata)
prepareHydratedValue(value, columnMetadata) ==
    IF value = Null \/ value = Undefined
    THEN Returned(value)
    ELSE IF \/ columnMetadata.type = Str(<<"t", "i", "m", "e", "s", "t", "a", "m", "p">>)
            \/ columnMetadata.type = Str(<<"d", "a", "t", "e">>)
            \/ columnMetadata.type = Ctor(<<"D", "a", "t", "e">>)
    THEN Returned(IF columnMetadata.transformer # "none"
                  THEN Transform(columnMetadata.transformer, [value EXCEPT !.t = "date"])
                  ELSE [value EXCEPT !.t = "date"])
    ELSE IF \/ columnMetadata.type = Str(<<"i", "n", "t", "6", "4">>)
            \/ columnMetadata.type = Str(<<"f", "l", "o", "a", "t", "6", "4">>)
            \/ columnMetadata.type = Str(<<"b", "o", "o", "l">>)
            \/ columnMetadata.type = Str(<<"s", "t", "r", "i", "n", "g">>)
            \/ columnMetadata.type = Ctor(<<"S", "t", "r", "i", "n", "g">>)
            \/ columnMetadata.type = Ctor(<<"N", "u", "m", "b", "e", "r">>)
            \/ columnMetadata.type = Str(<<"b", "y", "t", "e", "s">>)
    THEN Returned(IF columnMetadata.transformer # "none"
                  THEN Transform(columnMetadata.transformer, value)
                  ELSE value)
    ELSE DataTypeNotSupportedError(columnMetadata)

\* the column types the preparations are called with: the native names, the
\* logical types normalizeType knows, and one type nothing knows
ColumnTypes ==
    {Str(x) : x \in supportedDataTypes}
    \cup {Ctor(<<"N", "u", "m", "b", "e", "r">>), Ctor(<<"S", "t", "r", "i", "n", "g">>), Ctor(<<"D", "a", "t", "e">>), Ctor(<<"B", "u", "f", "f", "e", "r">>), Ctor(<<"B", "o", "o", "l", "e", "a", "n">>)}
    \cup {Str(<<"i", "n", "t", "e", "g", "e", "r">>), Str(<<"n", "v", "a", "r", "c", "h", "a", "r">>), Str(<<"s", "i", "m", "p", "l", "e", "-", "a", "r", "r", "a", "y">>), Str(<<"s", "i", "m", "p", "l", "e", "-", "j", "s", "o", "n">>),
          Str(<<"g", "e", "o", "m", "e", "t", "r", "y">>)}
\* the values they are called with
PreparedValues == {Null, Undefined, Str(<<"x">>), Num(1), Bool(TRUE)}
\* a call of one of the two, not yet run
Preparing(callee, v, type, transformer) ==
    [state |-> "called", callee |-> callee, value |-> v,
     columnMetadata |-> [type |-> type, transformer |-> transformer],
     outcome |-> Returned(Undefined)]
NotPreparing == [Preparing("none", Undefined, Undefined, "none") EXCEPT !.state = "idle"]

\* ---- DDL statements, described by their parts and written out as text

\* a type token: name, name(length) or name<element>
TypeToken(name, length, element) == [name |-> name, length |-> length, element |-> element]
\* no type token: the column fragment holds a name only
NoType == TypeToken(<<>>, <<>>, <<>>)
TypeText(type) ==
    type.name
    \o (IF type.element = <<>> THEN <<>> ELSE <<"<">> \o type.element \o <<">">>)
    \o (IF type.length = <<>> THEN <<>> ELSE <<"(">> \o type.length \o <<")">>)
\* a column clause: <name> <type> [NOT NULL]
ColumnClause(name, type, notNull) == [name |-> name, type |-> type, notNull |-> notNull]
ColumnText(c) ==
    c.name
    \o (IF c.type = NoType THEN <<>> ELSE <<" ">> \o TypeText(c.type))
    \o (IF c.notNull THEN <<" ", "N", "O", "T", " ", "N", "U", "L", "L">> ELSE <<>>)
\* a clause of the trailer
TrailerClause(kind, qualifier, name, table, columns) ==
    [kind |-> kind, qualifier |-> qualifier, name |-> name, table |-> table,
     columns |-> columns]
PrimaryKeyClause(columns) == TrailerClause("primary", <<>>, <<>>, <<>>, columns)
InterleaveClause(table, column) == TrailerClause("interleave", <<>>, <<>>, table, <<column>>)
IndexClause(qualifier, name, table, columns) ==
    TrailerClause("index", qualifier, name, table, columns)
ClauseText(k) ==
    CASE k.kind = "primary" -> <<"P", "R", "I", "M", "A", "R", "Y", " ", "K", "E", "Y", "(">> \o Join(k.columns, <<",", " ">>) \o <<")">>
      [] k.kind = "interleave" ->
            <<"I", "N", "T", "E", "R", "L", "E", "A", "V", "E", " ", "I", "N", " ", "P", "A", "R", "E", "N", "T", " ">> \o k.table \o <<"(">> \o k.columns[1] \o <<")">>
      [] k.kind = "index" ->
            Join(k.qualifier, <<" ">>) \o <<" ", "I", "N", "D", "E", "X", " ">> \o k.name \o <<" ", "O", "N", " ">> \o k.table
            \o <<"(">> \o Join(k.columns, <<",", " ">>) \o <<")">>
\* a statement: CREATE TABLE with its column clauses and its trailer, the
\* clauses of the trailer separated by a comma or by a space; or other text
\* (lines: one column clause per line, as getSchema prints a table)
CreateTable(name, columns, trailer, comma, lines) ==
    [table |-> TRUE, name |-> name, columns |-> columns, trailer |-> trailer,
     comma |-> comma, lines |-> lines, text |-> <<>>]
OtherStatement(text) ==
    [table |-> FALSE, name |-> <<>>, columns |-> <<>>, trailer |-> <<>>,
     comma |-> TRUE, lines |-> FALSE, text |-> text]
StatementText(d) ==
    IF ~d.table THEN d.text
    ELSE <<"C", "R", "E", "A", "T", "E", " ", "T", "A", "B", "L", "E", " ">> \o d.name
         \o (IF d.lines THEN <<" ", "(", "\n", " ", " ">> ELSE <<" ", "(">>)
         \o Join([i \in 1..Len(d.columns) |-> ColumnText(d.columns[i])],
                 IF d.lines THEN <<",", "\n", " ", " ">> ELSE <<",", " ">>)
         \o (IF d.lines THEN <<",", "\n", ")", " ">> ELSE <<",", ")", " ">>)
         \o Join([i \in 1..Len(d.trailer) |-> ClauseText(d.trailer[i])],
                 IF d.comma THEN <<",", " ">> ELSE <<" ">>)

\* ---- the statements parseSchema is called with

\* the most column clauses, trailer clauses and statements
MaxColumns == 2
MaxClauses == 2
MaxStatements == 2

Int64Type == TypeToken(<<"I", "N", "T", "6", "4">>, <<>>, <<>>)
String255Type == TypeToken(<<"S", "T", "R", "I", "N", "G">>, <<"2", "5", "5">>, <<>>)
TypeTokens ==
    {Int64Type, String255Type, TypeToken(<<"A", "R", "R", "A", "Y">>, <<>>, <<"I", "N", "T", "6", "4">>),
     TypeToken(<<"A", "R", "R", "A", "Y">>, <<>>, <<"S", "T", "R", "I", "N", "G", "(", "2", "5", "5", ")">>)}
\* the name of the i-th column
ColumnNameAt == <<<<"i", "d">>, <<"n", "a", "m", "e">>, <<"a", "g", "e">>>>
\* tables of one to MaxColumns columns of every type, nullable or not, with a
\* primary key over columns that exist and columns that do not
TablesOfColumns ==
    { CreateTable(<<"t">>, [i \in 1..Len(columns) |->
                             ColumnClause(ColumnNameAt[i], columns[i][1], columns[i][2])],
                  <<PrimaryKeyClause(key)>>, TRUE, lines)
      : columns \in UNION { [1..n -> TypeTokens \X BOOLEAN] : n \in 1..MaxColumns },
        key \in {<<<<"i", "d">>>>, <<<<"n", "a", "m", "e">>, <<"i", "d">>>>, <<<<"n", "a", "m", "e">>, <<"z", "z">>>>},
        lines \in BOOLEAN }
\* tables of two columns with every trailer of up to MaxClauses clauses
TrailerClauses ==
    {PrimaryKeyClause(<<<<"i", "d">>>>), InterleaveClause(<<"p">>, <<"i", "d">>)}
    \cup { IndexClause(<<<<"C", "R", "E", "A", "T", "E">>>>, <<"i">>, <<"t">>, <<<<"n", "a", "m", "e">>, <<"i", "d">>>>),
           IndexClause(<<<<"U", "N", "I", "Q", "U", "E">>>>, <<"j">>, <<"t">>, <<<<"n", "a", "m", "e">>, <<"z", "z">>>>),
           IndexClause(<<<<"U", "N", "I", "Q", "U", "E">>>>, <<"m">>, <<"t">>, <<<<"i", "d">>, <<"n", "a", "m", "e">>>>),
           IndexClause(<<<<"N", "U", "L", "L", "_", "F", "I", "L", "T", "E", "R", "E", "D">>>>, <<"k">>, <<"t">>, <<<<"i", "d">>>>),
           IndexClause(<<<<"U", "N", "I", "Q", "U", "E">>, <<"N", "U", "L", "L", "_", "F", "I", "L", "T", "E", "R", "E", "D">>>>, <<"l">>, <<"t">>, <<<<"i", "d">>>>) }
TablesOfTrailers ==
    { CreateTable(<<"t">>, <<ColumnClause(<<"i", "d">>, Int64Type, TRUE),
                         ColumnClause(<<"n", "a", "m", "e">>, String255Type, FALSE)>>,
                  trailer, comma, FALSE)
      : trailer \in SeqsUpTo(TrailerClauses, MaxClauses) \ {<<>>}, comma \in BOOLEAN }
\* lists of up to MaxStatements statements: two tables, a table with a
\* column fragment without type, a table without the comma that ends the
\* column list, and an index
ListedStatements ==
    { CreateTable(<<"t">>, <<ColumnClause(<<"i", "d">>, Int64Type, TRUE)>>,
                  <<PrimaryKeyClause(<<<<"i", "d">>>>)>>, TRUE, FALSE),
      CreateTable(<<"u">>, <<ColumnClause(<<"i", "d">>, Int64Type, FALSE),
                         ColumnClause(<<"n", "a", "m", "e">>, String255Type, TRUE)>>,
                  <<PrimaryKeyClause(<<<<"n", "a", "m", "e">>>>)>>, TRUE, FALSE),
      CreateTable(<<"v">>, <<ColumnClause(<<"i", "d">>, Int64Type, FALSE),
                         ColumnClause(<<"n", "a", "m", "e">>, NoType, FALSE)>>,
                  <<PrimaryKeyClause(<<<<"i", "d">>>>)>>, TRUE, FALSE),
      OtherStatement(<<"C", "R", "E", "A", "T", "E", " ", "T", "A", "B", "L", "E", " ", "w", " ", "(", "i", "d", " ", "I", "N", "T", "6", "4", ")", " ", "P", "R", "I", "M", "A", "R", "Y", " ", "K", "E", "Y", "(", "i", "d", ")">>),
      OtherStatement(<<"C", "R", "E", "A", "T", "E", " ", "I", "N", "D", "E", "X", " ", "i", " ", "O", "N", " ", "t", "(", "i", "d", ")">>) }
DescribedStatements ==
    {<<d>> : d \in TablesOfColumns \cup TablesOfTrailers}
    \cup (SeqsUpTo(ListedStatements, MaxStatements) \ {<<>>})

\* a call of parseSchema, not yet run, with the statements as they were
\* described and as the text handed in
Parsing(described) ==
    [state |-> "called", described |-> described,
     ddlStatements |-> [i \in 1..Len(described) |-> StatementText(described[i])],
     outcome |-> [error |-> NoError, tables |-> <<>>]]
NotParsing == [Parsing(<<>>) EXCEPT !.state = "idle"]

\* the longest default value compared
MaxDefault == 3
\* the values handed to compareDefaultValues: texts of quotes and a letter,
\* and undefined (no default)
DefaultValues == {Undefined} \cup {Str(x) : x \in SeqsUpTo({"'", "x"}, MaxDefault)}

\* a call of compareDefaultValues, not yet run
Comparing(a, b) ==
    [state |-> "called", columnMetadataValue |-> a, databaseValue |-> b,
     equal |-> FALSE]
NotComparing == [Comparing(Undefined, Undefined) EXCEPT !.state = "idle"]

IdleCalls ==
    /\ comparison = NotComparing
    /\ preparation = NotPreparing
    /\ parsing = NotParsing

\* one call, of one of the methods, is about to run
InitCalls ==
    /\ IdleEscape /\ IdleDiff /\ IdleDriver
    /\ \/ /\ \E a \in DefaultValues, b \in DefaultValues : comparison = Comparing(a, b)
          /\ preparation = NotPreparing
          /\ parsing = NotParsing
       \/ /\ comparison = NotComparing
          /\ \E callee \in {"preparePersistentValue", "prepareHydratedValue"},
                v \in PreparedValues, type \in ColumnTypes,
                transformer \in {"none", "same", "null"} :
                preparation = Preparing(callee, v, type, transformer)
          /\ parsing = NotParsing
       \/ /\ comparison = NotComparing
          /\ preparation = NotPreparing
          /\ \E described \in DescribedStatements : parsing = Parsing(described)

\* one call of compareDefaultValues
CompareDefaultValues ==
    /\ comparison.state = "called"
    /\ comparison' = [comparison EXCEPT
                        !.state = "returned",
                        !.equal = compareDefaultValues(comparison.columnMetadataValue,
                                                       comparison.databaseValue)]
    /\ UNCHANGED <<preparation, parsing, escapeVars, diffVars, driverVars>>

\* one call of parseSchema
ParseSchema ==
    /\ parsing.state = "called"
    /\ parsing' = [parsing EXCEPT !.state = "returned",
                                  !.outcome = parseSchema(parsing.ddlStatements)]
    /\ UNCHANGED <<comparison, preparation, escapeVars, diffVars, driverVars>>

\* one call of preparePersistentValue
PreparePersistentValue ==
    /\ preparation.state = "called"
    /\ preparation.callee = "preparePersistentValue"
    /\ preparation' = [preparation EXCEPT
                         !.state = "returned",
                         !.outcome = preparePersistentValue(preparation.value,
                                                            preparation.columnMetadata)]
    /\ UNCHANGED <<comparison, parsing, escapeVars, diffVars, driverVars>>

\* one call of prepareHydratedValue
PrepareHydratedValue ==
    /\ preparation.state = "called"
    /\ preparation.callee = "prepareHydratedValue"
    /\ preparation' = [preparation EXCEPT
                         !.state = "returned",
                         !.outcome = prepareHydratedValue(preparation.value,
                                                          preparation.columnMetadata)]
    /\ UNCHANGED <<comparison, parsing, escapeVars, diffVars, driverVars>>

-----------------------------------------------------------------------------
(* findChangedColumns on a table parsed from DDL *)

\* new Table(options): the TableColumn made of the options of a column that
\* parseSchema pushed
TableColumnOf(options) ==
    [LiveBase(options.name) EXCEPT
        !.type = options.type, !.length = Str(options.length),
        !.default = options.default, !.isPrimary = options.isPrimary,
        !.isNullable = options.isNullable, !.isUnique = options.isUnique,
        !.isGenerated = options.isGenerated]

\* the desired column of an entity that declares what the DDL declares: the
\* type, length, nullability and key of the live column, and as the
\* entity's indices (entityMetadata.indices) those of the table
ColumnMetadataOf(options, indices) ==
    [DesiredBase(options.name) EXCEPT
        !.type = Str(options.type), !.length = Str(options.length),
        !.isPrimary = options.isPrimary, !.isNullable = options.isNullable,
        !.entityMetadata =
            [indices |-> [k \in 1..Len(indices) |->
                            [isUnique |-> indices[k].isUnique,
                             columns |-> indices[k].columnNames]]]]

\* the tables parsed from statements that describe one table each
ParsedTables(described) ==
    { parsed.tables[1]
      : parsed \in { p \in { parseSchema(<<StatementText(d)>>) : d \in described } :
                        p.error = NoError /\ Len(p.tables) = 1 } }

\* findChangedColumns is called with the columns of a parsed table and the
\* desired columns of the entity that declares the same table
InitParsedDiff ==
    /\ IdleEscape /\ IdleDriver /\ IdleCalls
    /\ \E table \in ParsedTables(TablesOfColumns \cup TablesOfTrailers) :
          /\ tableColumns = [i \in 1..Len(table.columns) |->
                                TableColumnOf(table.columns[i])]
          /\ columnMetadatas = [i \in 1..Len(table.columns) |->
                                   ColumnMetadataOf(table.columns[i], table.indices)]
    /\ changed = NotDiffed

-----------------------------------------------------------------------------
(* Specifications *)

InitEscapeCalls == IdleDiff /\ IdleDriver /\ IdleCalls /\ InitEscape
NextEscape == EscapeQuery /\ UNCHANGED <<diffVars, driverVars, callVars>>
SpecEscape == InitEscapeCalls /\ [][NextEscape]_vars

InitDiffCalls == IdleEscape /\ IdleDriver /\ IdleCalls /\ InitDiff
NextDiff == FindChanged /\ UNCHANGED <<escapeVars, driverVars, callVars>>
SpecDiff == InitDiffCalls /\ [][NextDiff]_vars

SpecParsedDiff == InitParsedDiff /\ [][NextDiff]_vars

NextCalls ==
    \/ CompareDefaultValues
    \/ PreparePersistentValue
    \/ PrepareHydratedValue
    \/ ParseSchema
SpecCalls == InitCalls /\ [][NextCalls]_vars

Init == IdleEscape /\ IdleDiff /\ IdleCalls /\ InitDriver
Next ==
    \/ Connect
    \/ Connected
    \/ Disconnect
    \/ SetTable
    \/ LoadTables
    \/ GetSchemaReturned
    \/ ParseSchemaReturned
    \/ AfterConnect
    \/ AfterConnected
    \/ CreateDatabase
    \/ DropDatabase
    \/ ObtainMasterConnection
    \/ GetDatabaseHandle
Spec == Init /\ [][Next]_vars

-----------------------------------------------------------------------------
(* Properties of the connection and its schema cache (checked under Spec) *)

\* the step taken is a loadTables call invoking getSchema on database d
InvokesGetSchema(d) ==
    /\ d \in DOMAIN databases
    /\ databases'[d].handle.getSchemaCalls > databases[d].handle.getSchemaCalls

\* C1: once a loadTables call has resolved on a connection, no later
\* loadTables call on that connection invokes getSchema again, whatever the
\* schema fetched held (a schema without CREATE TABLE included).
C1_FetchedOncePerConnection ==
    [][\A d \in loaded : ~InvokesGetSchema(d)]_vars

\* the step taken establishes a connection
Connects == spanner' # 0 /\ spanner' # spanner

\* entry e of a cache was created by the parse of a fetch made on database d
ParsedOn(e, d) == e.object.database = d

\* C2: a connection starts with an empty table cache and null extended
\* schemas, and the cache of a connection never holds a table parsed from a
\* fetch made on another connection, so a fetch in flight across a reconnect
\* never writes into the new cache.
C2_ReconnectStartsEmpty ==
    /\ [][Connects =>
            /\ databases'[spanner'].tables = <<>>
            /\ databases'[spanner'].schemas = NullSchemas]_vars
    /\ [](\A d \in DOMAIN databases :
            \A i \in 1..Len(databases[d].tables) :
                \/ databases[d].tables[i].object = CallerObject
                \/ ParsedOn(databases[d].tables[i], d))

\* a fetch that was in flight on the first connection has resolved after the
\* second connection was established, whose cache it left empty
C2_Witness ==
    /\ spanner = 2
    /\ lastStep.op = "loadTablesResolved"
    /\ lastStep.database = 1
    /\ lastStep.result # <<>>
    /\ databases[1].tables # <<>>
    /\ databases[2].tables = <<>>
    /\ databases[2].schemas = NullSchemas

\* the step taken is the assignment a loadTables task makes to the cache
AssignsTables ==
    /\ lastStep'.op \in {"parseSchema", "loadTablesResolved"}
    /\ lastStep'.error = NoError
    /\ loading' # loading

\* C3: a table entry that is in the cache of a connection is still there,
\* the same object, after a loadTables call completes.
C3_EntriesSurviveLoads ==
    [][AssignsTables =>
         \A d \in DOMAIN databases :
            \A i \in 1..Len(databases[d].tables) :
               \E j \in 1..Len(databases'[d].tables) :
                  /\ databases'[d].tables[j].name = databases[d].tables[i].name
                  /\ databases'[d].tables[j].object = databases[d].tables[i].object]_vars

\* column c of a cached table carries what the column schema sets
Carries(c, columnSchema) ==
    /\ c.isGenerated = Truthy(columnSchema.generator)
    /\ c.default = columnSchema.default
    /\ c.generationStrategy = columnSchema.generatorStorategy

\* every column of the entry that its extended schema names carries the
\* values of the extended schema
Merged(e, extendSchemas) ==
    \A k \in 1..Len(ExtendSchemaOf(extendSchemas, e.name)) :
        \A c \in 1..Len(e.table.columns) :
            e.table.columns[c].name = ExtendSchemaOf(extendSchemas, e.name)[k].column
                => Carries(e.table.columns[c], ExtendSchemaOf(extendSchemas, e.name)[k])

\* the step taken resolves the c-th pending loadTables call
Resolves(c) ==
    /\ c \in 1..Len(loading)
    /\ loading' = WithoutCall(loading, c)
    /\ lastStep'.op = "loadTablesResolved"
    /\ lastStep'.database = loading[c].database

\* C4: when a loadTables call that was made after afterConnect completed on
\* its connection resolves, and it is the one that fetched the schema, every
\* cached table parsed from the schema has the extended schema merged in.
C4_MergedAfterFirstLoad ==
    [][\A c \in 1..Len(loading) :
          (loading[c].afterConnected /\ Resolves(c))
          => LET database == databases'[loading[c].database]
             IN  \A i \in 1..Len(database.tables) :
                    database.tables[i].object # CallerObject
                       => Merged(database.tables[i], database.schemas.entries)]_vars

\* the tasks of loadTables calls on database d that await getSchema
Fetching(calls, d) ==
    {<<c, i>> \in (1..Len(calls)) \X (1..MaxFetch) :
        /\ calls[c].database = d
        /\ i <= Len(calls[c].tasks)
        /\ calls[c].tasks[i].stage = "getSchema"}

\* C15: a loadTables call that finds the cache empty invokes getSchema once
\* for each of its table names, whether or not fetches of other tasks are
\* pending on the connection, and every fetch that returns is followed by
\* a parseSchema of its own.
C15_EveryObserverFetches ==
    [][/\ (/\ spanner # 0
           /\ \/ lastStep'.op = "loadTables"
              \/ lastStep'.op = "loadTablesResolved" /\ loading' = loading
           /\ databases[spanner].tables = <<>>)
          => /\ lastStep'.op = "loadTables"
             /\ Len(loading') = Len(loading) + 1
             /\ \A i \in 1..Len(loading'[Len(loading')].tasks) :
                   loading'[Len(loading')].tasks[i].stage = "getSchema"
             /\ databases'[spanner].handle.getSchemaCalls
                  = databases[spanner].handle.getSchemaCalls
                    + Len(loading'[Len(loading')].tasks)
             /\ Cardinality(Fetching(loading', spanner))
                  = Cardinality(Fetching(loading, spanner))
                    + Len(loading'[Len(loading')].tasks)
       /\ lastStep'.op = "getSchema"
          => \E c \in 1..Len(loading) : \E i \in 1..Len(loading[c].tasks) :
                /\ loading[c].tasks[i].stage = "getSchema"
                /\ loading' = [loading EXCEPT ![c].tasks[i].stage = "parseSchema"]
      ]_vars

\* two loadTables calls on the connected database each await a getSchema
\* of their own
C15_Witness ==
    /\ spanner # 0
    /\ \E x \in Fetching(loading, spanner), y \in Fetching(loading, spanner) :
          x[1] # y[1]

\* two tasks of one loadTables call each await a getSchema of their own
C15_WitnessWithinCall ==
    /\ spanner # 0
    /\ \E x \in Fetching(loading, spanner), y \in Fetching(loading, spanner) :
          x[1] = y[1] /\ x[2] # y[2]

-----------------------------------------------------------------------------
(* Properties of escapeQueryWithParameters (checked under SpecEscape) *)

\* The placeholder of name standing at position i of s, in either form,
\* ended by a character that is not of \w: its length, 0 when there is none.
PlaceholderLen(s, i, name) ==
    LET ends(n) == i + n > Len(s) \/ s[i + n] \notin WordChars
        spreadLen == 4 + Len(name)
        plainLen == 1 + Len(name)
    IN  IF StartsAt(s, i, <<":", ".", ".", ".">> \o name) /\ ends(spreadLen)
        THEN spreadLen
        ELSE IF StartsAt(s, i, <<":">> \o name) /\ ends(plainLen)
        THEN plainLen
        ELSE 0
\* how often the placeholder of name occurs in s
Occurrences(s, name) ==
    Cardinality({i \in 1..Len(s) : PlaceholderLen(s, i, name) > 0})

RECURSIVE SpliceFrom(_, _, _, _)
SpliceFrom(s, i, name, text) ==
    IF i > Len(s) THEN <<>>
    ELSE IF PlaceholderLen(s, i, name) > 0
    THEN text \o SpliceFrom(s, i + PlaceholderLen(s, i, name), name, text)
    ELSE <<s[i]>> \o SpliceFrom(s, i + 1, name, text)
\* s with every placeholder of name replaced by text
Splice(s, name, text) == SpliceFrom(s, 1, name, text)

RECURSIVE Repeat(_, _)
\* k copies of the sequence xs, one after the other
Repeat(xs, k) == IF k = 0 THEN <<>> ELSE xs \o Repeat(xs, k - 1)

\* the output parameter list without the passthrough mapping at its head
NamedPart(out, native) == IF native = <<>> THEN out ELSE Tail(out)
\* the entries of a parameter list that bind the key k
EntriesOf(out, k) == {i \in 1..Len(out) : out[i] = <<Binding(k, out[i][1].value)>>}

IsPlainArray(x) == x.isArray /\ ~x.isFunction
IsPlainValue(x) == ~x.isArray /\ ~x.isFunction
\* the declared parameters other than the i-th do not occur in the SQL text
OnlyOccurs(i) ==
    \A j \in 1..Len(parameters) : j # i => Occurrences(sql, parameters[j].name) = 0

\* the native parameters name0 .. nameN-1 of an array value, in index order
ElementBindings(name, elems) ==
    [i \in 1..Len(elems) |-> <<Binding(name \o NumberToText(i - 1), elems[i])>>]
\* the list @name0, ..., @nameN-1
ElementPlaceholders(name, elems) ==
    Join([i \in 1..Len(elems) |-> <<"@">> \o name \o NumberToText(i - 1)], <<",", " ">>)

\* C5 as stated: an array-valued parameter of length N whose placeholder
\* occurs in the SQL text (any number of times) yields exactly N native
\* parameters name0 .. nameN-1.
C5_ExactlyNForAnyOccurrences ==
    escaped.done =>
        \A i \in 1..Len(parameters) :
            (/\ IsPlainArray(parameters[i].value)
             /\ Occurrences(sql, parameters[i].name) >= 1
             /\ OnlyOccurs(i))
            => NamedPart(escaped.params, nativeParameters)
                 = ElementBindings(parameters[i].name, parameters[i].value.elems)

\* C5 amended: every occurrence of the placeholder of an array-valued
\* parameter of length N appends the N native parameters name0 .. nameN-1, in
\* index order, and is replaced by the list @name0, ..., @nameN-1: K
\* occurrences yield K * N native parameters, exactly N only when K = 1.
C5_NPerOccurrence ==
    escaped.done =>
        \A i \in 1..Len(parameters) :
            (IsPlainArray(parameters[i].value) /\ OnlyOccurs(i))
            => LET name == parameters[i].name
                   elems == parameters[i].value.elems
               IN  /\ NamedPart(escaped.params, nativeParameters)
                        = Repeat(ElementBindings(name, elems), Occurrences(sql, name))
                   /\ escaped.sql = Splice(sql, name, ElementPlaceholders(name, elems))

\* C5 witness: the array a of two elements, its placeholder standing twice.
C5_Witness ==
    /\ escaped.done
    /\ parameters = <<Binding(<<"a">>, ArrayOf(ElementsOf(2)))>>
    /\ sql = <<":", ".", ".", ".", "a", ",", ":", "a">>
    /\ escaped.sql = <<"@", "a", "0", ",", " ", "@", "a", "1", ",",
                       "@", "a", "0", ",", " ", "@", "a", "1">>
    /\ Len(escaped.params) = 4

\* C6 as stated: without array-valued parameters, every declared name that
\* occurs in the SQL text has exactly one native parameter, however often it
\* occurs, and no placeholder of a declared name remains.
C6_OnePerDistinctName ==
    escaped.done =>
        ((\A i \in 1..Len(parameters) :
              /\ IsPlainValue(parameters[i].value)
              /\ Occurrences(sql, parameters[i].name) >= 1)
         => /\ \A i \in 1..Len(parameters) :
                 Cardinality(EntriesOf(NamedPart(escaped.params, nativeParameters),
                                       parameters[i].name)) = 1
            /\ \A i \in 1..Len(parameters) :
                 Occurrences(escaped.sql, parameters[i].name) = 0)

\* C6 amended: when no parameter value is an array or a function, one native
\* parameter is produced per occurrence of a placeholder (exactly one per
\* name only when each name occurs once), and no placeholder of a declared
\* name remains in the rewritten SQL.
C6_OnePerOccurrence ==
    escaped.done =>
        ((\A i \in 1..Len(parameters) : IsPlainValue(parameters[i].value))
         => LET named == NamedPart(escaped.params, nativeParameters)
            IN  /\ \A i \in 1..Len(parameters) :
                     /\ Cardinality(EntriesOf(named, parameters[i].name))
                          = Occurrences(sql, parameters[i].name)
                     /\ \A e \in EntriesOf(named, parameters[i].name) :
                          named[e][1].value = parameters[i].value
                     /\ Occurrences(escaped.sql, parameters[i].name) = 0
                /\ \A e \in 1..Len(named) : HasKey(parameters, named[e][1].name))

\* C6 witness: two plain parameters, one of them occurring twice.
C6_Witness ==
    /\ escaped.done
    /\ parameters = <<Binding(<<"a">>, Scalar(1)), Binding(<<"a", "0">>, Scalar(1))>>
    /\ sql = <<":", "a", ":", "a", "0", ":", "a">>
    /\ escaped.sql = <<"@", "a", "@", "a", "0", "@", "a">>
    /\ Len(NamedPart(escaped.params, nativeParameters)) = 3

\* C7: the passthrough mapping heads the output list, as it was handed in,
\* exactly when it is not empty; without named parameters the SQL text is
\* returned unchanged and the list holds the passthrough mapping alone, or
\* nothing.
C7_PassthroughFirst ==
    escaped.done =>
        /\ nativeParameters # <<>> =>
             /\ Len(escaped.params) >= 1
             /\ escaped.params[1] = nativeParameters
        /\ nativeParameters = <<>> =>
             \A e \in 1..Len(escaped.params) : escaped.params[e] # <<>>
        /\ \A e \in 1..Len(NamedPart(escaped.params, nativeParameters)) :
             Len(NamedPart(escaped.params, nativeParameters)[e]) = 1
        /\ parameters = <<>> =>
             /\ escaped.sql = sql
             /\ escaped.params
                  = (IF nativeParameters = <<>> THEN <<>> ELSE <<nativeParameters>>)

\* C7 witness: a passthrough mapping ahead of a named parameter.
C7_Witness ==
    /\ escaped.done
    /\ nativeParameters # <<>>
    /\ parameters # <<>>
    /\ Len(escaped.params) >= 2
    /\ escaped.params[1] = nativeParameters

\* C8: a function value is called at every occurrence of its placeholder, the
\* text it returns stands in the SQL in place of the placeholder and no native
\* parameter is added for it, also when the value passes the array test.
C8_FunctionSpliced ==
    escaped.done =>
        \A i \in 1..Len(parameters) :
            (parameters[i].value.isFunction /\ OnlyOccurs(i))
            => /\ NamedPart(escaped.params, nativeParameters) = <<>>
               /\ escaped.sql = Splice(sql, parameters[i].name, parameters[i].value.ret)

\* C8 witness: a function that is also an array, its placeholder standing
\* twice.
C8_Witness ==
    /\ escaped.done
    /\ parameters = <<Binding(<<"a">>, FunctionArray(FragmentText, ElementsOf(1)))>>
    /\ sql = <<":", "a", ",", ":", ".", ".", ".", "a">>
    /\ escaped.sql = FragmentText \o <<",">> \o FragmentText
    /\ escaped.params = InitialEscapedParameters(nativeParameters)

-----------------------------------------------------------------------------
(* Properties of findChangedColumns (checked under SpecDiff) *)

\* the live column of a desired column: the first one of its database name
HasLive(cm) == \E i \in 1..Len(tableColumns) : tableColumns[i].name = cm.databaseName
LiveOf(cm) ==
    tableColumns[CHOOSE i \in 1..Len(tableColumns) :
        /\ tableColumns[i].name = cm.databaseName
        /\ \A j \in 1..(i - 1) : tableColumns[j].name # cm.databaseName]

\* the fields other than the default have the same values on both sides; the
\* desired side's native type and uniqueness are the ones the driver derives
SameFields(tc, cm) ==
    /\ tc.name = cm.databaseName
    /\ tc.type = normalizeType(cm)
    /\ tc.length = cm.length
    /\ tc.width = cm.width
    /\ tc.precision = cm.precision
    /\ tc.scale = cm.scale
    /\ tc.zerofill = cm.zerofill
    /\ tc.unsigned = cm.unsigned
    /\ tc.asExpression = cm.asExpression
    /\ tc.generatedType = cm.generatedType
    /\ tc.onUpdate = cm.onUpdate
    /\ tc.isPrimary = cm.isPrimary
    /\ tc.isNullable = cm.isNullable
    /\ tc.isUnique = normalizeIsUnique(cm)
    /\ tc.isGenerated = cm.isGenerated

\* C9 as stated: when every desired column has a live column of its name
\* with the same values in all compared fields, the default among them, no
\* column is reported.
C9_NoDiffWhenSame ==
    changed.done =>
        ((\A i \in 1..Len(columnMetadatas) :
              /\ HasLive(columnMetadatas[i])
              /\ SameFields(LiveOf(columnMetadatas[i]), columnMetadatas[i])
              /\ LiveOf(columnMetadatas[i]).default = columnMetadatas[i].default)
         => changed.cols = <<>>)

\* C9 amended: no column is reported when every desired column has a live
\* column of its name with the same values in all compared fields, is not an
\* update-date column, and has either no default on both sides (undefined or
\* null) or a string default whose text is the live default's text.
C9_NoDiffWhenSameDeclaredDefault ==
    changed.done =>
        ((\A i \in 1..Len(columnMetadatas) :
              /\ HasLive(columnMetadatas[i])
              /\ SameFields(LiveOf(columnMetadatas[i]), columnMetadatas[i])
              /\ ~columnMetadatas[i].isUpdateDate
              /\ columnMetadatas[i].default.t \in {"undefined", "null", "string"}
              /\ LiveOf(columnMetadatas[i]).default = columnMetadatas[i].default)
         => changed.cols = <<>>)

\* C9 witness: a desired column with the string default 'x' (quotes
\* included) and a live column with that same default; nothing is reported.
C9_Witness ==
    /\ changed.done
    /\ Len(columnMetadatas) >= 1
    /\ \A i \in 1..Len(columnMetadatas) :
          /\ HasLive(columnMetadatas[i])
          /\ SameFields(LiveOf(columnMetadatas[i]), columnMetadatas[i])
          /\ columnMetadatas[i].default = Str(<<"'", "x", "'">>)
          /\ LiveOf(columnMetadatas[i]).default = Str(<<"'", "x", "'">>)
    /\ changed.cols = <<>>

\* C10: the result is a subsequence of the desired columns, in their order,
\* and holds no desired column without a live column of its database name.
C10_SubsequenceOfDesired ==
    changed.done =>
        /\ \E f \in [1..Len(changed.cols) -> 1..Len(columnMetadatas)] :
              /\ \A k \in 1..Len(changed.cols) : changed.cols[k] = columnMetadatas[f[k]]
              /\ \A k, l \in 1..Len(changed.cols) : k < l => f[k] < f[l]
        /\ \A k \in 1..Len(changed.cols) : HasLive(changed.cols[k])

\* C10 witness: of two desired columns the first has no live column and only
\* the second is reported.
C10_Witness ==
    /\ changed.done
    /\ Len(columnMetadatas) = 2
    /\ ~HasLive(columnMetadatas[1])
    /\ HasLive(columnMetadatas[2])
    /\ changed.cols = <<columnMetadatas[2]>>

\* one of the compared fields differs between a live column and its desired
\* column, the default of the desired column being taken as given
FieldDiffers(tc, cm, default) ==
    \/ tc.type # normalizeType(cm)
    \/ tc.length # cm.length
    \/ tc.width # cm.width
    \/ tc.precision # cm.precision
    \/ tc.scale # cm.scale
    \/ tc.zerofill # cm.zerofill
    \/ tc.unsigned # cm.unsigned
    \/ tc.asExpression # cm.asExpression
    \/ tc.generatedType # cm.generatedType
    \/ ~compareDefaultValues(default, tc.default)
    \/ tc.onUpdate # cm.onUpdate
    \/ tc.isPrimary # cm.isPrimary
    \/ tc.isNullable # cm.isNullable
    \/ tc.isUnique # normalizeIsUnique(cm)
    \/ (cm.generationStrategy # Str(TextUuid) /\ tc.isGenerated # cm.isGenerated)
Reported(cm) == \E k \in 1..Len(changed.cols) : changed.cols[k] = cm

\* C16 (as stated): a desired column with a live column of its name is
\* reported exactly when one of the compared fields differs, the default
\* declared for the column being compared with the live default by
\* compareDefaultValues and isGenerated counting only when the generation
\* strategy is not uuid.
C16_ReportedIffFieldDiffers ==
    changed.done =>
        \A i \in 1..Len(columnMetadatas) :
            HasLive(columnMetadatas[i]) =>
                (Reported(columnMetadatas[i])
                 <=> FieldDiffers(LiveOf(columnMetadatas[i]), columnMetadatas[i],
                                  columnMetadatas[i].default))

\* C16 (amended): as above, with the default of the desired column being
\* the one normalizeDefault gives for it: the commit timestamp for an
\* update-date column, a number or a boolean as text, the text a function
\* returns, a text in quotes.
C16_ReportedIffNormalizedFieldDiffers ==
    changed.done =>
        \A i \in 1..Len(columnMetadatas) :
            HasLive(columnMetadatas[i]) =>
                (Reported(columnMetadatas[i])
                 <=> FieldDiffers(LiveOf(columnMetadatas[i]), columnMetadatas[i],
                                  normalizeDefault(columnMetadatas[i])))

\* of two desired columns the first differs from its live column in the
\* default alone, x being declared and 'x' being live, and the second in
\* nullability alone: the second is reported and the first is not
C16_Witness ==
    /\ changed.done
    /\ Len(columnMetadatas) = 2
    /\ HasLive(columnMetadatas[1]) /\ HasLive(columnMetadatas[2])
    /\ columnMetadatas[1].default = Str(<<"x">>)
    /\ LiveOf(columnMetadatas[1]).default = Str(<<"'", "x", "'">>)
    /\ SameFields(LiveOf(columnMetadatas[1]), columnMetadatas[1])
    /\ LiveOf(columnMetadatas[2]).isNullable # columnMetadatas[2].isNullable
    /\ LiveOf(columnMetadatas[2]).default = columnMetadatas[2].default
    /\ [LiveOf(columnMetadatas[2]) EXCEPT !.isNullable = columnMetadatas[2].isNullable]
         = [LiveBase(columnMetadatas[2].databaseName) EXCEPT !.isNullable = FALSE]
    /\ columnMetadatas[2] = [DesiredBase(columnMetadatas[2].databaseName) EXCEPT !.isNullable = FALSE]
    /\ changed.cols = <<columnMetadatas[2]>>

-----------------------------------------------------------------------------
(* Properties of compareDefaultValues (checked under SpecCalls) *)

\* a text without the quotes at its two ends: what lies between its first
\* and its last character that is not a quote
Unquoted(x) ==
    LET inner == {i \in 1..Len(x) : x[i] # "'"}
    IN  IF inner = {} THEN <<>>
        ELSE SubSeq(x, CHOOSE i \in inner : \A j \in inner : i <= j,
                       CHOOSE i \in inner : \A j \in inner : i >= j)
\* a text without at most one quote at each end
OneLayerOff(x) ==
    LET from == IF x # <<>> /\ x[1] = "'" THEN 2 ELSE 1
        to == IF Len(x) >= from /\ x[Len(x)] = "'" THEN Len(x) - 1 ELSE Len(x)
    IN  SubSeq(x, from, to)
BothTexts ==
    /\ comparison.state = "returned"
    /\ comparison.columnMetadataValue.t = "string"
    /\ comparison.databaseValue.t = "string"

\* C11 (as stated): two texts compare equal exactly when they are equal
\* after at most one leading and one trailing quote is removed from each.
C11_EqualAfterOneLayer ==
    BothTexts =>
        (comparison.equal <=> OneLayerOff(comparison.columnMetadataValue.s)
                              = OneLayerOff(comparison.databaseValue.s))

\* C11 (amended): two texts compare equal exactly when they are equal after
\* every leading and every trailing quote is removed from each; in
\* particular 'x' and x compare equal.
C11_EqualAfterAllQuotes ==
    BothTexts =>
        (comparison.equal <=> Unquoted(comparison.columnMetadataValue.s)
                              = Unquoted(comparison.databaseValue.s))

\* ''x was compared with x and found equal
C11_Witness ==
    /\ BothTexts
    /\ comparison.columnMetadataValue.s = <<"'", "'", "x">>
    /\ comparison.databaseValue.s = <<"x">>
    /\ comparison.equal

-----------------------------------------------------------------------------
(* Properties of the value preparation (checked under SpecCalls) *)

\* the value whose type is checked: what transformer.to made of the value
\* to be persisted, the value itself when it is hydrated
CheckedValue ==
    IF /\ preparation.callee = "preparePersistentValue"
       /\ preparation.columnMetadata.transformer # "none"
    THEN Transform(preparation.columnMetadata.transformer, preparation.value)
    ELSE preparation.value

\* C14: the unsupported-type error, carrying the column's type, is raised
\* exactly for a value that is not null or undefined in a column whose
\* logical type normalizeType maps to none of the supported native types.
C14_UnsupportedExactlyWithoutMapping ==
    preparation.state = "returned" =>
        /\ preparation.outcome.error = "DataTypeNotSupportedError"
             <=> /\ CheckedValue \notin {Null, Undefined}
                 /\ normalizeType(preparation.columnMetadata) \notin supportedDataTypes
        /\ preparation.outcome.error = "DataTypeNotSupportedError"
             => preparation.outcome.type = preparation.columnMetadata.type

-----------------------------------------------------------------------------
(* Properties of parseSchema (checked under SpecCalls) *)

\* a CREATE TABLE statement as getSchema prints one: every column clause
\* with its type, the clauses of the trailer separated by commas
WellFormed(d) ==
    /\ d.table
    /\ \A i \in 1..Len(d.columns) : d.columns[i].type # NoType
    /\ d.comma \/ Len(d.trailer) <= 1
Interleaved(d) == \E k \in 1..Len(d.trailer) : d.trailer[k].kind = "interleave"
\* the call has returned or thrown, and every statement it was given is of
\* the kind said
ParsedAll(Kind(_)) ==
    /\ parsing.state = "returned"
    /\ \A k \in 1..Len(parsing.described) : Kind(parsing.described[k])
\* the tables returned under a name
TablesNamed(name) ==
    {parsing.outcome.tables[k] : k \in {j \in 1..Len(parsing.outcome.tables) :
                                          parsing.outcome.tables[j].name = name}}
\* the statement is the last one of the list for its table
LastOfName(k) ==
    \A j \in (k + 1)..Len(parsing.described) :
        parsing.described[j].table => parsing.described[j].name # parsing.described[k].name
\* the columns named by the clauses of a kind that satisfy the test
NamedBy(d, kind, Test(_)) ==
    UNION { {d.trailer[k].columns[n] : n \in 1..Len(d.trailer[k].columns)}
            : k \in {j \in 1..Len(d.trailer) : d.trailer[j].kind = kind /\ Test(d.trailer[j])} }
AnyClause(k) == TRUE

PlainTable(d) == ~d.table \/ (WellFormed(d) /\ ~Interleaved(d))

\* C12: a well-formed CREATE TABLE statement yields a table whose columns
\* are those of the column clauses in their order, each nullable unless its
\* clause says NOT NULL, and primary exactly when the PRIMARY KEY clause
\* names it; names of columns that do not exist are ignored without error.
C12_ColumnsNullabilityPrimaryKey ==
    ParsedAll(PlainTable) =>
        /\ parsing.outcome.error = NoError
        /\ \A k \in 1..Len(parsing.described) :
              LET d == parsing.described[k]
              IN  d.table /\ LastOfName(k) =>
                    /\ Cardinality(TablesNamed(d.name)) = 1
                    /\ \A t \in TablesNamed(d.name) :
                          /\ Len(t.columns) = Len(d.columns)
                          /\ \A i \in 1..Len(d.columns) :
                                /\ t.columns[i].name = d.columns[i].name
                                /\ t.columns[i].isNullable = ~d.columns[i].notNull
                                /\ t.columns[i].isPrimary
                                     = (d.columns[i].name \in NamedBy(d, "primary", AnyClause))

\* the statement of the scenario was parsed: id is int64, not nullable and
\* primary, name is a nullable string of length 255 that is not primary
C12_Witness ==
    /\ parsing.state = "returned"
    /\ parsing.ddlStatements
         = <<<<"C", "R", "E", "A", "T", "E", " ", "T", "A", "B", "L", "E", " ", "t", " ", "(", "i", "d", " ", "I", "N", "T", "6", "4", " ", "N", "O", "T", " ", "N", "U", "L", "L", ",", " ", "n", "a", "m", "e", " ", "S", "T", "R", "I", "N", "G", "(", "2", "5", "5", ")", ",", ")", " ", "P", "R", "I", "M", "A", "R", "Y", " ", "K", "E", "Y", "(", "i", "d", ")">>>>
    /\ parsing.outcome.error = NoError
    /\ Len(parsing.outcome.tables) = 1
    /\ LET columns == parsing.outcome.tables[1].columns
       IN  /\ Len(columns) = 2
           /\ columns[1].name = <<"i", "d">> /\ columns[1].type = <<"i", "n", "t", "6", "4">>
           /\ ~columns[1].isNullable /\ columns[1].isPrimary
           /\ columns[2].name = <<"n", "a", "m", "e">> /\ columns[2].type = <<"s", "t", "r", "i", "n", "g">>
           /\ columns[2].length = <<"2", "5", "5">>
           /\ columns[2].isNullable /\ ~columns[2].isPrimary

\* C13: a CREATE TABLE statement with an INTERLEAVE IN PARENT table(col)
\* clause in its trailer, wherever the clause stands and whether a comma or
\* a space separates it from the clause before it, makes parseSchema raise
\* the not-supported error, and no table is returned.
C13_InterleaveNotSupported ==
    \A k \in 1..Len(parsing.described) :
        LET d == parsing.described[k]
        IN  /\ parsing.state = "returned"
            /\ Len(parsing.described) = 1
            /\ d.table
            /\ \A i \in 1..Len(d.columns) : d.columns[i].type # NoType
            /\ Interleaved(d)
            => /\ parsing.outcome.error = InterleaveNotSupported
               /\ parsing.outcome.tables = <<>>

\* the clauses of a trailer that are index clauses, in their order
IndexClausesOf(d) ==
    LET IsIndex(k) == k.kind = "index" IN SelectSeq(d.trailer, IsIndex)
HasWord(qualifier, word) == \E n \in 1..Len(qualifier) : qualifier[n] = word
UniqueClause(k) == HasWord(k.qualifier, <<"U", "N", "I", "Q", "U", "E">>)

\* C17: the clauses of a trailer that are neither INTERLEAVE nor PRIMARY KEY
\* yield one index each, in their order, with the name and the column names
\* of the clause in declared order, unique iff the qualifier words contain
\* UNIQUE and spatial iff they contain NULL_FILTERED; the uniques are the
\* unique indices with the same name and columns; a column is unique
\* exactly when a unique index clause names it.
C17_IndexClauses ==
    ParsedAll(PlainTable) /\ Len(parsing.described) = 1 /\ parsing.described[1].table =>
        LET d == parsing.described[1]
            clauses == IndexClausesOf(d)
            unique == SelectSeq(clauses, UniqueClause)
        IN  /\ parsing.outcome.error = NoError
            /\ \A t \in TablesNamed(d.name) :
                  /\ t.indices = [n \in 1..Len(clauses) |->
                                    [name |-> clauses[n].name,
                                     columnNames |-> clauses[n].columns,
                                     isUnique |-> HasWord(clauses[n].qualifier, <<"U", "N", "I", "Q", "U", "E">>),
                                     isSpatial |-> HasWord(clauses[n].qualifier,
                                                           <<"N", "U", "L", "L", "_", "F", "I", "L", "T", "E", "R", "E", "D">>)]]
                  /\ t.uniques = [n \in 1..Len(unique) |->
                                    [name |-> unique[n].name,
                                     columnNames |-> unique[n].columns]]
                  /\ \A i \in 1..Len(t.columns) :
                        t.columns[i].isUnique
                         = (t.columns[i].name \in NamedBy(d, "index", UniqueClause))

\* a table with a unique index over name and a column that does not exist,
\* followed by a null-filtered index over id, was parsed: two indices, one
\* unique, and name is the only unique column
C17_Witness ==
    /\ parsing.state = "returned"
    /\ Len(parsing.described) = 1
    /\ parsing.described[1].table /\ parsing.described[1].comma
    /\ Len(parsing.described[1].trailer) = 2
    /\ parsing.described[1].trailer[1].kind = "index"
    /\ parsing.described[1].trailer[1].qualifier = <<<<"U", "N", "I", "Q", "U", "E">>>>
    /\ parsing.described[1].trailer[1].columns = <<<<"n", "a", "m", "e">>, <<"z", "z">>>>
    /\ parsing.described[1].trailer[2].qualifier = <<<<"N", "U", "L", "L", "_", "F", "I", "L", "T", "E", "R", "E", "D">>>>
    /\ Len(parsing.outcome.tables) = 1
    /\ LET t == parsing.outcome.tables[1]
       IN  /\ Len(t.indices) = 2
           /\ t.indices[1].isUnique /\ ~t.indices[1].isSpatial
           /\ ~t.indices[2].isUnique /\ t.indices[2].isSpatial
           /\ t.uniques = <<[name |-> <<"j">>, columnNames |-> <<<<"n", "a", "m", "e">>, <<"z", "z">>>>]>>
           /\ ~t.columns[1].isUnique /\ t.columns[2].isUnique

\* a CREATE TABLE statement with a column fragment that has no type token
MalformedColumn(d) ==
    /\ d.table
    /\ \E i \in 1..Len(d.columns) : d.columns[i].type = NoType
NoInterleave(d) == ~d.table \/ ~Interleaved(d)

\* C18: when a fragment of the column list of a CREATE TABLE statement is
\* not of the shape name, type token, rest, parseSchema throws the
\* invalid-column-format error and returns no table, the tables of the
\* statements before it included.
C18_InvalidColumnIsFatal ==
    /\ ParsedAll(NoInterleave)
    /\ \E k \in 1..Len(parsing.described) : MalformedColumn(parsing.described[k])
    => /\ parsing.outcome.error = InvalidColumnFormat
       /\ parsing.outcome.tables = <<>>

\* a list of a well-formed table and then a table with a column fragment
\* without type was parsed, and the call threw
C18_Witness ==
    /\ parsing.state = "returned"
    /\ Len(parsing.described) = 2
    /\ WellFormed(parsing.described[1])
    /\ MalformedColumn(parsing.described[2])
    /\ parsing.outcome.error = InvalidColumnFormat
    /\ parsing.outcome.tables = <<>>

\* the statements of the list that are of the CREATE TABLE shape, and the
\* call's list without the others
IsTable(d) == d.table
WithoutSkipped ==
    LET kept == SelectSeq(parsing.described, IsTable)
    IN  [i \in 1..Len(kept) |-> StatementText(kept[i])]

\* C19: a statement that is not of the CREATE TABLE shape is skipped without
\* error: the call ends as it does for the list without such statements,
\* the tables returned are those of the statements of the shape, and a list
\* of nothing but such statements gives no table and no error.
C19_OtherStatementsSkipped ==
    /\ parsing.state = "returned"
    /\ \E k \in 1..Len(parsing.described) : ~parsing.described[k].table
    => /\ parsing.outcome = parseSchema(WithoutSkipped)
       /\ parsing.outcome.error = NoError =>
             {parsing.outcome.tables[k].name : k \in 1..Len(parsing.outcome.tables)}
              = {parsing.described[k].name
                 : k \in {j \in 1..Len(parsing.described) : parsing.described[j].table}}
       /\ WithoutSkipped = <<>> =>
             parsing.outcome = [error |-> NoError, tables |-> <<>>]

\* a CREATE INDEX statement and then a well-formed table were parsed: the
\* table is returned and nothing is thrown
C19_Witness ==
    /\ parsing.state = "returned"
    /\ Len(parsing.described) = 2
    /\ ~parsing.described[1].table
    /\ parsing.ddlStatements[1] = <<"C", "R", "E", "A", "T", "E", " ", "I", "N", "D", "E", "X", " ", "i", " ", "O", "N", " ", "t", "(", "i", "d", ")">>
    /\ WellFormed(parsing.described[2])
    /\ parsing.outcome.error = NoError
    /\ Len(parsing.outcome.tables) = 1
    /\ parsing.outcome.tables[1].name = parsing.described[2].name

\* a CREATE TABLE text whose column list does not end with a comma was
\* parsed after a well-formed table: only the latter is returned
C19_WitnessNoComma ==
    /\ parsing.state = "returned"
    /\ Len(parsing.described) = 2
    /\ WellFormed(parsing.described[1])
    /\ ~parsing.described[2].table
    /\ parsing.ddlStatements[2] = <<"C", "R", "E", "A", "T", "E", " ", "T", "A", "B", "L", "E", " ", "w", " ", "(", "i", "d", " ", "I", "N", "T", "6", "4", ")", " ", "P", "R", "I", "M", "A", "R", "Y", " ", "K", "E", "Y", "(", "i", "d", ")">>
    /\ parsing.outcome.error = NoError
    /\ Len(parsing.outcome.tables) = 1

\* the column parsed from the i-th column clause of d is of the shape its
\* type token has
ResolvedAs(column, type) ==
    IF type.element # <<>>
    THEN column.isArray /\ column.length = <<"1">>
    ELSE IF type.length # <<>>
    THEN /\ column.type = ToLowerCase(type.name)
         /\ ~column.isArray
         /\ column.length = type.length
    ELSE column.type = ToLowerCase(type.name) /\ ~column.isArray

\* C20: the type token of every column of a parsed table is resolved by its
\* shape: type(length) to the lower-cased name, not an array, that length;
\* type<element> to an array of length 1; a bare type to not an array. A
\* column declared ARRAY<INT64> or ARRAY<STRING(255)> is an array.
C20_TypeTokenShapes ==
    ParsedAll(PlainTable) /\ Len(parsing.described) = 1 /\ parsing.described[1].table =>
        LET d == parsing.described[1]
        IN  \A t \in TablesNamed(d.name) :
              /\ Len(t.columns) = Len(d.columns)
              /\ \A i \in 1..Len(d.columns) : ResolvedAs(t.columns[i], d.columns[i].type)

\* the same for the tables none of whose columns is declared with an array
\* type
C20_TypeTokenShapesWithoutArrays ==
    /\ ParsedAll(PlainTable) /\ Len(parsing.described) = 1 /\ parsing.described[1].table
    /\ \A i \in 1..Len(parsing.described[1].columns) :
          parsing.described[1].columns[i].type.element = <<>>
    => LET d == parsing.described[1]
       IN  \A t \in TablesNamed(d.name) :
             /\ Len(t.columns) = Len(d.columns)
             /\ \A i \in 1..Len(d.columns) : ResolvedAs(t.columns[i], d.columns[i].type)

\* what parseSchema stores for an array column: the type "array", not an
\* array, length 1, whatever the element type
C20_ArrayColumnsStoredAsBareType ==
    ParsedAll(PlainTable) /\ Len(parsing.described) = 1 /\ parsing.described[1].table =>
        LET d == parsing.described[1]
        IN  \A t \in TablesNamed(d.name) : \A i \in 1..Len(d.columns) :
              d.columns[i].type.element # <<>> =>
                /\ t.columns[i].type = <<"a", "r", "r", "a", "y">>
                /\ ~t.columns[i].isArray
                /\ t.columns[i].length = <<"1">>

-----------------------------------------------------------------------------
(* Properties of updateTableWithExtendSchema (checked under Spec) *)

\* the step taken is afterConnect resuming on a connected driver, where it
\* calls updateTableWithExtendSchema on this.spanner.database
Overlays ==
    /\ afterConnecting' = afterConnecting - 1
    /\ lastStep'.op = "afterConnected"
    /\ spanner # 0

\* the column after the overlay of a column schema
Overlaid(column, columnSchema) ==
    [column EXCEPT !.isGenerated = Truthy(columnSchema.generator),
                   !.default = columnSchema.default,
                   !.generationStrategy = columnSchema.generatorStorategy]

\* the column schemas that the extended schemas hold for a column of a table
SchemasNaming(extendSchemas, tableName, columnName) ==
    {columnSchema \in
        UNION { {extendSchemas[i].columns[k] : k \in 1..Len(extendSchemas[i].columns)}
                : i \in {j \in 1..Len(extendSchemas) : extendSchemas[j].table = tableName} } :
        columnSchema.column = columnName}

\* C21: updateTableWithExtendSchema sets isGenerated (true iff the generator
\* is present), default and generationStrategy on every cached column that
\* the extended schema of its table names; a column of the extended schema
\* that the table does not have raises nothing and does not stop the columns
\* after it; the other columns and tables stay as they are, and the
\* extended schemas are returned as they were read.
C21_OverlayOnNamedColumns ==
    [][Overlays =>
        LET extendSchemas == createAndLoadSchemaTableIfNotExists(extendStore)
            before == databases[spanner]
            after == databases'[spanner]
        IN  /\ lastStep'.error = NoError
            /\ after.schemas = [isNull |-> FALSE, entries |-> extendSchemas]
            /\ after.handle = before.handle
            /\ \A d \in DOMAIN databases \ {spanner} : databases'[d] = databases[d]
            /\ Len(after.tables) = Len(before.tables)
            /\ \A i \in 1..Len(before.tables) :
                  LET e == before.tables[i]
                      f == after.tables[i]
                  IN  /\ f.name = e.name /\ f.object = e.object
                      /\ [f.table EXCEPT !.columns = <<>>] = [e.table EXCEPT !.columns = <<>>]
                      /\ Len(f.table.columns) = Len(e.table.columns)
                      /\ \A c \in 1..Len(e.table.columns) :
                            LET naming == SchemasNaming(extendSchemas, e.name,
                                                        e.table.columns[c].name)
                            IN  IF naming = {}
                                THEN f.table.columns[c] = e.table.columns[c]
                                ELSE \A columnSchema \in naming :
                                        f.table.columns[c]
                                         = Overlaid(e.table.columns[c], columnSchema)]_vars

\* afterConnect has completed on a connection whose cache held the parsed
\* table t: the extended schema of t names z, which t does not have, and
\* then a and b, which are overlaid; table u, which no extended schema
\* names, is cached as parsed
C21_Witness ==
    /\ lastStep.op = "afterConnected" /\ lastStep.error = NoError
    /\ spanner # 0
    /\ ddl = 3
    /\ createAndLoadSchemaTableIfNotExists(extendStore)[1].table = <<"t">>
    /\ createAndLoadSchemaTableIfNotExists(extendStore)[1].columns[1].column = <<"z">>
    /\ Len(databases[spanner].tables) = 2
    /\ LET t == databases[spanner].tables[1].table
           u == databases[spanner].tables[2].table
       IN  /\ t.name = <<"t">> /\ u.name = <<"u">>
           /\ \A c \in 1..Len(t.columns) : t.columns[c].name # <<"z">>
           /\ t.columns[1].name = <<"a">>
           /\ t.columns[1].isGenerated /\ t.columns[1].generationStrategy = Str(TextUuid)
           /\ t.columns[2].name = <<"b">>
           /\ ~t.columns[2].isGenerated /\ t.columns[2].default = Str(<<"0">>)
           /\ u = ParsedCatalogue[3].tables[2]

-----------------------------------------------------------------------------
(* Properties of the operations that need a connection (checked under Spec) *)

\* the operations that read this.spanner when they are called
NeedsConnection ==
    {"createDatabase", "dropDatabase", "setTable", "loadTables", "afterConnect",
     "obtainMasterConnection"}

\* the step taken is a call of one of them on a driver that is not connected
CalledNotConnected ==
    /\ spanner = 0
    /\ lastStep'.op \in NeedsConnection

\* C22: createDatabase, dropDatabase, setTable, loadTables, afterConnect and
\* obtainMasterConnection, called on a driver that is not connected (before
\* connect or after disconnect), end with an error and change nothing of the
\* driver: no connection is made or started, and no cache is created.
C22_NotConnectedFailsUnchanged ==
    [][CalledNotConnected =>
          /\ lastStep'.error # NoError
          /\ lastStep'.database = 0
          /\ UNCHANGED <<spanner, databases, connecting, loading, afterConnecting,
                         loaded, ddl, extendStore>>]_vars

\* obtainMasterConnection was called after a disconnect and threw; the
\* driver is still disconnected and the database object of the connection
\* that was closed is as it was left
C22_Witness ==
    /\ lastStep.op = "obtainMasterConnection"
    /\ lastStep.error = NoActiveDatabase
    /\ spanner = 0 /\ connecting = 0
    /\ Len(databases) = 1

\* the same for the other operations, before the first connect
C22_WitnessBeforeConnect ==
    /\ lastStep.op \in {"createDatabase", "dropDatabase", "setTable", "loadTables",
                        "afterConnect"}
    /\ lastStep.error \in {NotConnected, NotConnectedSetTable}
    /\ spanner = 0 /\ databases = <<>> /\ connecting = 0

-----------------------------------------------------------------------------
(* Properties of what loadTables returns (checked under Spec) *)

\* the table names a loadTables call that resolves in the step taken was
\* called with: those of the pending call that settles, or, for a call that
\* resolves without fetching, those of any request
RequestedNames ==
    IF loading' = loading
    THEN {[i \in 1..Len(tableNames) |-> TableName(tableNames[i])]
          : tableNames \in LoadRequests}
    ELSE {[i \in 1..Len(loading[c].tasks) |-> loading[c].tasks[i].name]
          : c \in {k \in 1..Len(loading) : Resolves(k)}}

\* the name is that of a table a CREATE TABLE statement of the schema defines
DefinedInSchema(name) ==
    \E i \in 1..Len(ParsedCatalogue[ddl].tables) :
        ParsedCatalogue[ddl].tables[i].name = name

\* the step taken is a loadTables call resolving with the tables requested
\* that the schema defines, in the order requested
ResolvesAsRequested ==
    \E requested \in RequestedNames :
        [i \in 1..Len(lastStep'.result) |-> lastStep'.result[i].name]
         = SelectSeq(requested, DefinedInSchema)

\* C23: on a connected driver a loadTables call returns, in the order
\* requested, the tables requested that the schema of the database defines,
\* and leaves out only the names it does not define, whatever setTable and
\* loadTables calls were made before on the connection.
C23_ReturnsRequestedTables ==
    [][lastStep'.op = "loadTablesResolved" /\ ParsedCatalogue[ddl].error = NoError
          => ResolvesAsRequested]_vars

\* the same for the calls on a cache that holds no table handed to setTable
C23_ReturnsRequestedTablesWithoutSetTable ==
    [][/\ lastStep'.op = "loadTablesResolved"
       /\ ParsedCatalogue[ddl].error = NoError
       /\ \A i \in 1..Len(databases'[lastStep'.database].tables) :
             databases'[lastStep'.database].tables[i].object # CallerObject
       => ResolvesAsRequested]_vars

-----------------------------------------------------------------------------
(* Properties of connect (checked under Spec) *)

\* the step taken belongs to a connect() call, made directly or by
\* getDatabaseHandle, on a driver that holds a connection: the call is
\* made, or a call made earlier resumes after database.get
ConnectsWhileConnected ==
    /\ spanner # 0
    /\ lastStep'.op \in {"connect", "getDatabaseHandle", "connected"}

\* the connection state stays the one installed: the same database object
\* with its handle, its table cache and its schemas
KeepsConnection ==
    /\ spanner' = spanner
    /\ databases'[spanner] = databases[spanner]

\* C24: a connect() call on a connected driver leaves handle, table cache
\* and schemas as they are, and of two connect() calls that overlap the one
\* that finishes later does not replace the connection state that the
\* earlier one installed.
C24_OneConnectionState ==
    [][ConnectsWhileConnected => KeepsConnection]_vars

\* the same for the calls made on a connected driver alone
C24_ConnectWhenConnectedKeeps ==
    [][spanner # 0 /\ lastStep'.op \in {"connect", "getDatabaseHandle"}
          => KeepsConnection /\ connecting' = connecting]_vars

\* two connect() calls overlapped, the first to finish installed a
\* connection on which a table was cached, and the second replaced it by a
\* connection with an empty cache
C24_ReplacedByLaterConnect ==
    /\ lastStep.op = "connected"
    /\ spanner = 2
    /\ Len(databases) = 2
    /\ databases[1].tables # <<>>
    /\ databases[2].tables = <<>>
    /\ connecting = 0

-----------------------------------------------------------------------------
(* Properties of a schema that cannot be parsed (checked under Spec) *)

\* the schemas of the catalogue that parseSchema does not accept: a column
\* clause without a type, and an interleaved table after a table that parses
FatalSchemas == {4, 5}

\* C25: when the schema cannot be parsed, every loadTables call that
\* fetches it rejects with the error of the parse and leaves the cache as it
\* was: no table parsed from the schema is ever cached, not even those of
\* the statements before the one that fails, and a call on the cache left
\* empty fetches the schema again.
C25_FailedParseCachesNothing ==
    [][(ddl \in FatalSchemas) =>
          /\ \A d \in DOMAIN databases' : \A i \in 1..Len(databases'[d].tables) :
                databases'[d].tables[i].object = CallerObject
          /\ lastStep'.op \in {"loadTablesRejected", "parseSchema"} =>
                /\ lastStep'.error \in {InvalidColumnFormat, InterleaveNotSupported}
                /\ databases' = databases
                /\ loaded' = loaded
          /\ lastStep'.op = "loadTablesResolved" =>
                /\ loading' = loading
                /\ Len(databases[lastStep'.database].tables) > 0]_vars

\* a loadTables call for one table was rejected on the schema whose second
\* statement cannot be parsed, the cache is empty, and the next call has
\* invoked getSchema again
C25_Witness ==
    /\ ddl = 5
    /\ spanner # 0
    /\ lastStep.op = "loadTables"
    /\ databases[spanner].tables = <<>>
    /\ databases[spanner].handle.getSchemaCalls = 2
    /\ Len(loading) = 1
    /\ Len(loading[1].tasks) = 1
    /\ loading[1].tasks[1].fetch = 2

\* the rejection itself, with the error of the interleaved table
C25_WitnessRejected ==
    /\ ddl = 5
    /\ lastStep.op = "loadTablesRejected"
    /\ lastStep.error = InterleaveNotSupported
    /\ spanner # 0
    /\ databases[spanner].tables = <<>>

-----------------------------------------------------------------------------
(* Properties of findChangedColumns on a parsed table (checked under       *)
(* SpecParsedDiff)                                                         *)

\* the unique indices the entity declares over more than one column
MultiColumnUnique(columnMetadata) ==
    {k \in 1..Len(columnMetadata.entityMetadata.indices) :
        /\ columnMetadata.entityMetadata.indices[k].isUnique
        /\ Len(columnMetadata.entityMetadata.indices[k].columns) > 1}

\* C26: for a table parsed from DDL and the desired columns of an entity
\* that declares the same unique indices over the same columns, of one
\* column or of several, findChangedColumns reports no column.
C26_ParsedUniquenessAgrees ==
    changed.done => changed.cols = <<>>

\* the same for the entities whose unique indices are all of one column
C26_ParsedUniquenessAgreesSingleColumn ==
    /\ changed.done
    /\ \A i \in 1..Len(columnMetadatas) : MultiColumnUnique(columnMetadatas[i]) = {}
    => changed.cols = <<>>

\* the columns reported are those of a unique index of several columns: the
\* parser marked them unique, normalizeIsUnique says they are not
C26_ReportedAreOfMultiColumnUnique ==
    changed.done =>
        \A n \in 1..Len(changed.cols) :
            /\ \E k \in MultiColumnUnique(changed.cols[n]) :
                  \E j \in 1..Len(changed.cols[n].entityMetadata.indices[k].columns) :
                     changed.cols[n].entityMetadata.indices[k].columns[j]
                      = changed.cols[n].propertyName
            /\ ~normalizeIsUnique(changed.cols[n])
            /\ \E i \in 1..Len(tableColumns) :
                  /\ tableColumns[i].name = changed.cols[n].databaseName
                  /\ tableColumns[i].isUnique

\* a table with a unique index of one column was compared and nothing was
\* reported
C26_WitnessSingleColumn ==
    /\ changed.done /\ changed.cols = <<>>
    /\ \E i \in 1..Len(tableColumns) :
          tableColumns[i].isUnique /\ normalizeIsUnique(columnMetadatas[i])

\* a table with a unique index over its two columns was compared with the
\* entity that declares that index, and both columns were reported
C26_ReportedBothColumns ==
    /\ changed.done
    /\ Len(tableColumns) = 2
    /\ Len(changed.cols) = 2
    /\ \A i \in 1..2 :
          /\ tableColumns[i].isUnique
          /\ Len(columnMetadatas[i].entityMetadata.indices) = 1
          /\ columnMetadatas[i].entityMetadata.indices[1]
               = [isUnique |-> TRUE, columns |-> <<tableColumns[1].name, tableColumns[2].name>>]

-----------------------------------------------------------------------------
(* Properties of the native names (checked under SpecEscape) *)

\* the native bindings a declared parameter stands for: one per element of
\* an array, one for a plain value, none for a function
GeneratedBy(declared) ==
    IF declared.value.isFunction THEN {}
    ELSE IF declared.value.isArray
    THEN {Binding(declared.name \o NumberToText(i - 1), declared.value.elems[i])
          : i \in 1..Len(declared.value.elems)}
    ELSE {Binding(declared.name, declared.value)}

\* the bindings returned that were derived from the named parameters
DerivedBindings ==
    {NamedPart(escaped.params, nativeParameters)[i][1]
     : i \in 1..Len(NamedPart(escaped.params, nativeParameters))}

\* C27: two native bindings returned under one name come from one named
\* parameter: the names name0 .. nameN-1 of the elements of an array do not
\* coincide with the native name of another declared parameter.
C27_NativeNamesNotShared ==
    escaped.done =>
        \A b, c \in DerivedBindings :
            b.name = c.name =>
                \E i \in 1..Len(parameters) :
                    b \in GeneratedBy(parameters[i]) /\ c \in GeneratedBy(parameters[i])

\* the same for the calls with one declared parameter
C27_NativeNamesNotSharedOneParameter ==
    escaped.done /\ Len(parameters) <= 1 =>
        \A b, c \in DerivedBindings :
            b.name = c.name =>
                \E i \in 1..Len(parameters) :
                    b \in GeneratedBy(parameters[i]) /\ c \in GeneratedBy(parameters[i])

\* the array a of two elements and the plain value a0 were both bound: the
\* native name a0 stands for the first element of a and for the value of a0
C27_SharedNativeName ==
    /\ escaped.done
    /\ \E i, j \in 1..Len(parameters) :
          /\ parameters[i].name = <<"a">> /\ IsPlainArray(parameters[i].value)
          /\ Len(parameters[i].value.elems) = 2
          /\ parameters[j].name = <<"a", "0">> /\ IsPlainValue(parameters[j].value)
          /\ Binding(<<"a", "0">>, parameters[i].value.elems[1]) \in DerivedBindings
          /\ Binding(<<"a", "0">>, parameters[j].value) \in DerivedBindings
          /\ parameters[i].value.elems[1] # parameters[j].value

====
